---- MODULE Spec2Model ----
(***************************************************************************)
(* A model of the CoreAuth Python SDK: the HTTP transport                  *)
(* (coreauth/_http.py), its error classes (coreauth/exceptions.py) and the *)
(* service facades (coreauth/services/*.py) that call it.                  *)
(*                                                                         *)
(* Program state is the transport's base address, its bearer token and its *)
(* connection pool, the caller's position in a with-block and the callers  *)
(* that run requests concurrently.  The remaining variables observe the    *)
(* most recent operation: which it was, the requests it put on the wire,   *)
(* the response it received and what it returned or raised.                *)
(***************************************************************************)
EXTENDS Integers, Sequences, FiniteSets, TLC

VARIABLES
    base_url,   \* HttpClient._base_url
    token,      \* HttpClient._token
    credOp,     \* history: the most recent credential operation
    call,       \* history: the most recent operation and its arguments
    wire,       \* history: the HTTP attempts the most recent operation made
    resp,       \* history: what the network gave the most recent operation
    result,     \* history: what the most recent operation returned or raised
    client,     \* HttpClient._client: the close() calls the pool has received
    scope,      \* the caller's position in `with CoreAuthClient(...) as c:`
    threads     \* the callers that run a verb method concurrently

vars == <<base_url, token, credOp, call, wire, resp, result, client, scope, threads>>

(***************************************************************************)
(* Bounds of the model.                                                    *)
(***************************************************************************)
NumTokens == 2      \* distinct non-empty token strings
MaxSlashes == 2     \* trailing '/' characters of the constructor's base_url
MaxInt == 1         \* optional integer arguments range over 0..MaxInt
NumThreads == 2     \* callers that use one client concurrently
MaxCloses == 2      \* close() calls the pool receives

(***************************************************************************)
(* Python values.  Every value carries its type, so that None, "", 0 and   *)
(* False stay distinct and can be compared.                                *)
(***************************************************************************)
None == [t |-> "none"]
PStr(s) == [t |-> "str", v |-> s]
PInt(n) == [t |-> "int", v |-> n]
PBool(b) == [t |-> "bool", v |-> b]
PDict(f) == [t |-> "dict", v |-> f]
PList(s) == [t |-> "list", v |-> s]

EmptyMap == [k \in {} |-> None]

\* bool(v): Python's truth test, as used by `if x:` and `x or None`.
Truthy(v) ==
    CASE v.t = "none" -> FALSE
      [] v.t = "str" -> v.v # ""
      [] v.t = "int" -> v.v # 0
      [] v.t = "bool" -> v.v
      [] v.t = "dict" -> DOMAIN v.v # {}
      [] v.t = "list" -> Len(v.v) # 0

\* str(v) as an f-string formats it.
Format(v) ==
    CASE v.t = "none" -> "None"
      [] v.t = "str" -> v.v
      [] v.t = "int" -> ToString(v.v)
      [] v.t = "bool" -> IF v.v THEN "True" ELSE "False"

\* `x or None`
OrNone(v) == IF Truthy(v) THEN v ELSE None

\* dict.get(key, default)
DictGet(d, key, default) == IF key \in DOMAIN d THEN d[key] ELSE default

\* {**a, **b}: the keys of b win.
DictMerge(a, b) == [k \in DOMAIN a \cup DOMAIN b |-> IF k \in DOMAIN b THEN b[k] ELSE a[k]]

\* An argument the call leaves out, so that the parameter's default applies.
Omitted == [t |-> "omitted"]

\* The value of a parameter: the argument, or the default when it is left out.
Param(arg, default) == IF arg = Omitted THEN default ELSE arg

\* d[key] = value
DictSet(d, key, value) == [k \in DOMAIN d \cup {key} |-> IF k = key THEN value ELSE d[k]]

(***************************************************************************)
(* Strings that are taken apart are sequences of pieces; Join gives the    *)
(* string.  A piece is "/" or a run of other characters.                   *)
(***************************************************************************)
RECURSIVE Join(_)
Join(s) == IF s = <<>> THEN "" ELSE Head(s) \o Join(Tail(s))

\* A plausible slip: only one trailing '/' is removed.
RStripOneSlash(s) ==
    IF s # <<>> /\ s[Len(s)] = "/" THEN SubSeq(s, 1, Len(s) - 1) ELSE s

\* str.rstrip("/"): every trailing '/' is removed.
RECURSIVE RStripSlash(_)
RStripSlash(s) ==
    IF s # <<>> /\ s[Len(s)] = "/" THEN RStripSlash(SubSeq(s, 1, Len(s) - 1)) ELSE s

(***************************************************************************)
(* coreauth/exceptions.py.  An outcome is a return or a raise; a raised    *)
(* ApiError carries the fields its constructor sets.                       *)
(***************************************************************************)
Return(v) == [kind |-> "return", value |-> v]

\* raise CoreAuthError(f"Request failed: {e}") from e
CoreAuthError(cause) ==
    [kind |-> "raise", cls |-> "CoreAuthError", bases |-> {"CoreAuthError"},
     text |-> "Request failed: " \o cause, cause |-> cause]

\* ApiError.__init__ as reached from the class cls
ApiErrorInit(cls, status_code, error, message) ==
    [kind |-> "raise", cls |-> cls, bases |-> {cls, "ApiError", "CoreAuthError"},
     status_code |-> status_code, error |-> error, message |-> message]

ApiError(status_code, error, message) == ApiErrorInit("ApiError", status_code, error, message)
AuthenticationError(error, message) == ApiErrorInit("AuthenticationError", 401, error, message)
ForbiddenError(error, message) == ApiErrorInit("ForbiddenError", 403, error, message)
NotFoundError(error, message) == ApiErrorInit("NotFoundError", 404, error, message)
ConflictError(error, message) == ApiErrorInit("ConflictError", 409, error, message)
ValidationError(error, message) == ApiErrorInit("ValidationError", 400, error, message)
RateLimitError(error, message) == ApiErrorInit("RateLimitError", 429, error, message)

\* The default arguments of the six constructors.
DefaultError(cls) ==
    CASE cls = "AuthenticationError" -> PStr("unauthorized")
      [] cls = "ForbiddenError" -> PStr("forbidden")
      [] cls = "NotFoundError" -> PStr("not_found")
      [] cls = "ConflictError" -> PStr("conflict")
      [] cls = "ValidationError" -> PStr("validation_error")
      [] cls = "RateLimitError" -> PStr("rate_limited")

\* A plausible slip: every class falls back to one generic message.
DefaultMessageGeneric(cls) == PStr("Request failed")

DefaultMessage(cls) ==
    CASE cls = "AuthenticationError" -> PStr("Authentication required")
      [] cls = "ForbiddenError" -> PStr("Insufficient permissions")
      [] cls = "NotFoundError" -> PStr("Resource not found")
      [] cls = "ConflictError" -> PStr("Resource already exists")
      [] cls = "ValidationError" -> PStr("Invalid request")
      [] cls = "RateLimitError" -> PStr("Rate limit exceeded")

\* cls(error, message) for one of the six specific classes
SpecificError(cls, error, message) ==
    CASE cls = "AuthenticationError" -> AuthenticationError(error, message)
      [] cls = "ForbiddenError" -> ForbiddenError(error, message)
      [] cls = "NotFoundError" -> NotFoundError(error, message)
      [] cls = "ConflictError" -> ConflictError(error, message)
      [] cls = "ValidationError" -> ValidationError(error, message)
      [] cls = "RateLimitError" -> RateLimitError(error, message)

\* An exception that is not the SDK's: json's decode error leaving resp.json().
JSONDecodeError == [kind |-> "raise", cls |-> "JSONDecodeError", bases |-> {"JSONDecodeError", "ValueError"}]

(***************************************************************************)
(* The network.  An HTTP attempt ends in a response (a status code and the *)
(* raw text of the body) or in an httpx.HTTPError, with no response.       *)
(***************************************************************************)
Response(status_code, text) == [t |-> "response", status_code |-> status_code, text |-> text]
HTTPError(name) == [t |-> "exc", name |-> name]

\* The body an error response of the server carries: {error: E, message: M}.
ErrorBody(E, M) == "{\"error\": \"" \o E \o "\", \"message\": \"" \o M \o "\"}"

ErrorCodes == {"", "x"}
Messages == {"y"}

OnlyErrorBody == "{\"error\": \"x\"}"
EmptyObjectBody == "{}"
ListBody == "[1]"
ObjectBody == "{\"a\": 1}"
TokenBody == "{\"access_token\": \"A\", \"refresh_token\": \"R\", \"token_type\": \"Bearer\", \"expires_in\": 3600}"
HtmlBody == "<html>Bad Gateway</html>"

Bodies ==
    {"", OnlyErrorBody, EmptyObjectBody, ListBody, ObjectBody, HtmlBody}
        \cup {ErrorBody(E, M) : E \in ErrorCodes, M \in Messages}

Statuses == {101, 200, 204, 299, 300, 302, 400, 401, 403, 404, 409, 429, 500}

Responses == {Response(s, b) : s \in Statuses, b \in Bodies}

\* Failures of an attempt that httpx reports as subclasses of httpx.HTTPError.
TransportFailures == {HTTPError("ConnectError"), HTTPError("ReadTimeout")}

NetOutcomes == Responses \cup TransportFailures

\* json.loads on the body texts of the model: the decoded value, or a decode
\* error (ok = FALSE).  The decoder is the json library's.
JsonLoads(text) ==
    CASE \E E \in ErrorCodes, M \in Messages : text = ErrorBody(E, M) ->
            LET p == CHOOSE p \in ErrorCodes \X Messages : text = ErrorBody(p[1], p[2])
            IN  [ok |-> TRUE, value |-> PDict([error |-> PStr(p[1]), message |-> PStr(p[2])])]
      [] text = OnlyErrorBody -> [ok |-> TRUE, value |-> PDict([error |-> PStr("x")])]
      [] text = EmptyObjectBody -> [ok |-> TRUE, value |-> PDict(EmptyMap)]
      [] text = ListBody -> [ok |-> TRUE, value |-> PList(<<PInt(1)>>)]
      [] text = ObjectBody -> [ok |-> TRUE, value |-> PDict([a |-> PInt(1)])]
      [] text = TokenBody ->
            [ok |-> TRUE,
             value |-> PDict([access_token |-> PStr("A"), refresh_token |-> PStr("R"),
                              token_type |-> PStr("Bearer"), expires_in |-> PInt(3600)])]
      [] OTHER -> [ok |-> FALSE, value |-> None]

\* JsonLoads, evaluated once for the body texts of the model.
JsonTable == [b \in Bodies \cup {TokenBody} |-> JsonLoads(b)]

\* resp.json()
ResponseJson(text) == IF text \in DOMAIN JsonTable THEN JsonTable[text] ELSE JsonLoads(text)

(***************************************************************************)
(* coreauth/_http.py: HttpClient                                           *)
(***************************************************************************)

\* A plausible slip: two rows of the table are exchanged, 404 and 409.
ErrorMapSwapped(status_code) ==
    CASE status_code = 400 -> "ValidationError"
      [] status_code = 401 -> "AuthenticationError"
      [] status_code = 403 -> "ForbiddenError"
      [] status_code = 404 -> "ConflictError"
      [] status_code = 409 -> "NotFoundError"
      [] status_code = 429 -> "RateLimitError"
      [] OTHER -> "ApiError"

\* error_map.get(resp.status_code, ApiError)
ErrorMap(status_code) ==
    CASE status_code = 400 -> "ValidationError"
      [] status_code = 401 -> "AuthenticationError"
      [] status_code = 403 -> "ForbiddenError"
      [] status_code = 404 -> "NotFoundError"
      [] status_code = 409 -> "ConflictError"
      [] status_code = 429 -> "RateLimitError"
      [] OTHER -> "ApiError"

\* A plausible slip: the except branch drops the raw text.
ErrorFieldsNoText(r) ==
    LET j == ResponseJson(r.text)
    IN  IF j.ok /\ j.value.t = "dict"
        THEN [error |-> DictGet(j.value.v, "error", PStr("")),
              message |-> DictGet(j.value.v, "message", PStr(""))]
        ELSE [error |-> PStr("unknown"), message |-> PStr("")]

\* A plausible slip: a field the body lacks is left to the default of the
\* class, as if the constructor were called without it.
ErrorFieldsKindDefaults(r) ==
    LET j == ResponseJson(r.text)
        cls == ErrorMap(r.status_code)
    IN  IF j.ok /\ j.value.t = "dict"
        THEN [error |-> DictGet(j.value.v, "error",
                                IF cls = "ApiError" THEN PStr("") ELSE DefaultError(cls)),
              message |-> DictGet(j.value.v, "message",
                                  IF cls = "ApiError" THEN PStr("") ELSE DefaultMessage(cls))]
        ELSE [error |-> PStr(""), message |-> PStr(r.text)]

\* The try/except of _handle_response: error and message from the body.  A
\* body that does not decode, or decodes to something without .get, falls to
\* the except branch.
ErrorFields(r) ==
    LET j == ResponseJson(r.text)
    IN  IF j.ok /\ j.value.t = "dict"
        THEN [error |-> DictGet(j.value.v, "error", PStr("")),
              message |-> DictGet(j.value.v, "message", PStr(""))]
        ELSE [error |-> PStr(""), message |-> PStr(r.text)]

\* A plausible slip: the specific classes are raised with their defaults.
HandleResponseDefaults(r) ==
    IF r.status_code = 204 THEN Return(None)
    ELSE IF 200 <= r.status_code /\ r.status_code < 300
    THEN IF r.text = "" THEN Return(None)
         ELSE IF ResponseJson(r.text).ok THEN Return(ResponseJson(r.text).value)
         ELSE JSONDecodeError
    ELSE LET f == ErrorFields(r)
             cls == ErrorMap(r.status_code)
         IN  IF cls = "ApiError" THEN ApiError(r.status_code, f.error, f.message)
             ELSE SpecificError(cls, DefaultError(cls), DefaultMessage(cls))

\* A plausible slip: every status below 400 is taken for a success.
HandleResponseRedirectOk(r) ==
    IF r.status_code = 204 THEN Return(None)
    ELSE IF 200 <= r.status_code /\ r.status_code < 400
    THEN IF r.text = "" THEN Return(None)
         ELSE IF ResponseJson(r.text).ok THEN Return(ResponseJson(r.text).value)
         ELSE JSONDecodeError
    ELSE LET f == ErrorFields(r)
             cls == ErrorMap(r.status_code)
         IN  IF cls = "ApiError" THEN ApiError(r.status_code, f.error, f.message)
             ELSE SpecificError(cls, f.error, f.message)

\* A plausible slip: 204 is not singled out, so its body is decoded.
HandleResponseNo204(r) ==
    IF 200 <= r.status_code /\ r.status_code < 300
    THEN IF r.text = "" THEN Return(None)
         ELSE IF ResponseJson(r.text).ok THEN Return(ResponseJson(r.text).value)
         ELSE JSONDecodeError
    ELSE LET f == ErrorFields(r)
             cls == ErrorMap(r.status_code)
         IN  IF cls = "ApiError" THEN ApiError(r.status_code, f.error, f.message)
             ELSE SpecificError(cls, f.error, f.message)

\* A plausible slip: the success range ends one short, at 298.
HandleResponseShortRange(r) ==
    IF r.status_code = 204 THEN Return(None)
    ELSE IF 200 <= r.status_code /\ r.status_code < 299
    THEN IF r.text = "" THEN Return(None)
         ELSE IF ResponseJson(r.text).ok THEN Return(ResponseJson(r.text).value)
         ELSE JSONDecodeError
    ELSE LET f == ErrorFields(r)
             cls == ErrorMap(r.status_code)
         IN  IF cls = "ApiError" THEN ApiError(r.status_code, f.error, f.message)
             ELSE SpecificError(cls, f.error, f.message)

\* A plausible slip: a 2xx body that does not decode is taken for no value.
HandleResponseLenient(r) ==
    IF r.status_code = 204 THEN Return(None)
    ELSE IF 200 <= r.status_code /\ r.status_code < 300
    THEN IF r.text = "" THEN Return(None)
         ELSE IF ResponseJson(r.text).ok THEN Return(ResponseJson(r.text).value)
         ELSE Return(None)
    ELSE LET f == ErrorFields(r)
             cls == ErrorMap(r.status_code)
         IN  IF cls = "ApiError" THEN ApiError(r.status_code, f.error, f.message)
             ELSE SpecificError(cls, f.error, f.message)

\* HttpClient._handle_response
HandleResponse(r) ==
    IF r.status_code = 204 THEN Return(None)
    ELSE IF 200 <= r.status_code /\ r.status_code < 300
    THEN IF r.text = "" THEN Return(None)
         ELSE IF ResponseJson(r.text).ok THEN Return(ResponseJson(r.text).value)
         ELSE JSONDecodeError
    ELSE LET f == ErrorFields(r)
             cls == ErrorMap(r.status_code)
         IN  IF cls = "ApiError" THEN ApiError(r.status_code, f.error, f.message)
             ELSE SpecificError(cls, f.error, f.message)

\* A plausible slip: the token is tested with `is not None`.
HeadersNotNone ==
    LET headers == [k \in {"Content-Type"} |-> "application/json"]
    IN  IF token # None
        THEN DictSet(headers, "Authorization", "Bearer " \o Format(token))
        ELSE headers

\* HttpClient._headers
Headers ==
    LET headers == [k \in {"Content-Type"} |-> "application/json"]
    IN  IF Truthy(token)
        THEN DictSet(headers, "Authorization", "Bearer " \o Format(token))
        ELSE headers

\* A plausible slip: the form headers are copied from _headers.
FormHeadersJson ==
    LET headers == [k \in {"Content-Type"} |-> "application/json"]
    IN  IF Truthy(token)
        THEN DictSet(headers, "Authorization", "Bearer " \o Format(token))
        ELSE headers

\* A plausible slip: the form headers test the token with `is not None`.
FormHeadersNotNone ==
    LET headers == [k \in {"Content-Type"} |-> "application/x-www-form-urlencoded"]
    IN  IF token # None
        THEN DictSet(headers, "Authorization", "Bearer " \o Format(token))
        ELSE headers

\* HttpClient._form_headers
FormHeaders ==
    LET headers == [k \in {"Content-Type"} |-> "application/x-www-form-urlencoded"]
    IN  IF Truthy(token)
        THEN DictSet(headers, "Authorization", "Bearer " \o Format(token))
        ELSE headers

\* One call of self._client.<method>(url, headers=..., params/json/data=...)
HttpxRequest(method, url, headers, params, json, data) ==
    [method |-> method, url |-> url, headers |-> headers,
     params |-> params, json |-> json, data |-> data]

\* A plausible slip: a failed attempt, or a 429 or 5xx response, is tried again.
ExchangeRetry(req, net) ==
    /\ wire' = IF net.t = "exc" \/ net.status_code = 429 \/ net.status_code >= 500
               THEN <<req, req>> ELSE <<req>>
    /\ resp' = net
    /\ UNCHANGED <<base_url, token, credOp, client, scope, threads>>

\* The effect shared by the six verb methods: one attempt on the wire, with
\* the headers of the current token.  Nothing of the client is written.
Exchange(req, net) ==
    /\ wire' = <<req>>
    /\ resp' = net
    /\ UNCHANGED <<base_url, token, credOp, client, scope, threads>>

\* A plausible slip: a 401 for a call without credential is reported as a
\* failure to connect.
VerbResultAnonymous(net) ==
    IF net.t = "exc" THEN CoreAuthError(net.name)
    ELSE IF net.status_code = 401 /\ ~Truthy(token) THEN CoreAuthError("no token")
    ELSE HandleResponse(net)

\* A plausible slip: a connectivity failure marks the client broken, and
\* the calls after it fail without looking at their response.
VerbResultSticky(net) ==
    IF net.t = "exc" \/ (result.kind = "raise" /\ result.cls = "CoreAuthError")
    THEN CoreAuthError(IF net.t = "exc" THEN net.name ELSE result.cause)
    ELSE HandleResponse(net)

\* The value shared by the six verb methods: an httpx.HTTPError becomes
\* CoreAuthError, a response goes to _handle_response.
VerbResult(net) ==
    IF net.t = "exc" THEN CoreAuthError(net.name) ELSE HandleResponse(net)

HttpGet(path, params, net) ==
    LET url == base_url \o path
    IN  Exchange(HttpxRequest("GET", url, Headers, params, None, None), net)

HttpPost(path, json, net) ==
    LET url == base_url \o path
    IN  Exchange(HttpxRequest("POST", url, Headers, None, json, None), net)

HttpPostForm(path, data, net) ==
    LET url == base_url \o path
    IN  Exchange(HttpxRequest("POST", url, FormHeaders, None, None, data), net)

HttpPut(path, json, net) ==
    LET url == base_url \o path
    IN  Exchange(HttpxRequest("PUT", url, Headers, None, json, None), net)

HttpPatch(path, json, net) ==
    LET url == base_url \o path
    IN  Exchange(HttpxRequest("PATCH", url, Headers, None, json, None), net)

HttpDelete(path, json, net) ==
    LET url == base_url \o path
    IN  Exchange(HttpxRequest("DELETE", url, Headers, None, json, None), net)

\* HttpClient.set_token
HttpSetToken(t) ==
    /\ token' = t
    /\ credOp' = [op |-> "set_token", token |-> t]
    /\ wire' = <<>>
    /\ resp' = None
    /\ result' = Return(None)
    /\ UNCHANGED <<base_url, client, scope>>

\* HttpClient.clear_token
HttpClearToken ==
    /\ token' = None
    /\ credOp' = [op |-> "clear_token", token |-> None]
    /\ wire' = <<>>
    /\ resp' = None
    /\ result' = Return(None)
    /\ UNCHANGED <<base_url, client, scope>>

(***************************************************************************)
(* coreauth/client.py: CoreAuthClient                                      *)
(***************************************************************************)
Token(i) == "t" \o ToString(i)
TokenStrings == {""} \cup {Token(i) : i \in 1..NumTokens}

RECURSIVE Slashes(_)
Slashes(n) == IF n = 0 THEN <<>> ELSE <<"/">> \o Slashes(n - 1)

\* The callers of one client, and a caller that is not inside a verb method.
Threads == 1..NumThreads
Idle ==
    [pc |-> "idle", verb |-> "", path |-> "", headers |-> EmptyMap, held |-> {},
     request |-> None, resp |-> None, result |-> Return(None)]

\* The arguments the constructor is given.
BaseInputs == {<<"http://h">> \o Slashes(n) : n \in 0..MaxSlashes}
InitTokens == {None, PStr(""), PStr(Token(1))}

\* CoreAuthClient.__init__, HttpClient.__init__
Init ==
    \E b \in BaseInputs, t \in InitTokens :
        /\ base_url = Join(RStripSlash(b))
        /\ token = t
        /\ credOp = [op |-> "init", token |-> t]
        /\ call = [op |-> "init", args |-> [base_url |-> PStr(Join(b)), token |-> t]]
        /\ wire = <<>>
        /\ resp = None
        /\ result = Return(None)
        /\ client = [closes |-> 0]
        /\ scope = [at |-> "outside", exc |-> None]
        /\ threads = [th \in Threads |-> Idle]

\* CoreAuthClient.set_token
ClientSetToken ==
    \E t \in TokenStrings :
        /\ HttpSetToken(PStr(t))
        /\ call' = [op |-> "set_token", args |-> [token |-> PStr(t)]]
        /\ UNCHANGED threads

\* CoreAuthClient.clear_token
ClientClearToken ==
    /\ HttpClearToken
    /\ call' = [op |-> "clear_token", args |-> EmptyMap]
    /\ UNCHANGED threads

(***************************************************************************)
(* Direct use of the transport's six verb methods, as every facade method  *)
(* uses them.                                                              *)
(***************************************************************************)
Paths == {"/api/x"}
QueryArgs == {PDict([q |-> PStr("v")])}
JsonArgs == {PDict([name |-> PStr("n")])}
FormArgs == {PDict([grant_type |-> PStr("client_credentials")])}

Get ==
    \E path \in Paths, params \in QueryArgs, net \in NetOutcomes :
        /\ HttpGet(path, params, net)
        /\ result' = VerbResult(net)
        /\ call' = [op |-> "get", args |-> [path |-> PStr(path), params |-> params]]

Post ==
    \E path \in Paths, json \in JsonArgs, net \in NetOutcomes :
        /\ HttpPost(path, json, net)
        /\ result' = VerbResult(net)
        /\ call' = [op |-> "post", args |-> [path |-> PStr(path), json |-> json]]

PostForm ==
    \E path \in Paths, data \in FormArgs, net \in NetOutcomes :
        /\ HttpPostForm(path, data, net)
        /\ result' = VerbResult(net)
        /\ call' = [op |-> "post_form", args |-> [path |-> PStr(path), data |-> data]]

Put ==
    \E path \in Paths, json \in JsonArgs, net \in NetOutcomes :
        /\ HttpPut(path, json, net)
        /\ result' = VerbResult(net)
        /\ call' = [op |-> "put", args |-> [path |-> PStr(path), json |-> json]]

Patch ==
    \E path \in Paths, json \in JsonArgs, net \in NetOutcomes :
        /\ HttpPatch(path, json, net)
        /\ result' = VerbResult(net)
        /\ call' = [op |-> "patch", args |-> [path |-> PStr(path), json |-> json]]

Delete ==
    \E path \in Paths, json \in JsonArgs, net \in NetOutcomes :
        /\ HttpDelete(path, json, net)
        /\ result' = VerbResult(net)
        /\ call' = [op |-> "delete", args |-> [path |-> PStr(path), json |-> json]]

VerbOps == {"get", "post", "post_form", "put", "patch", "delete"}

Next ==
    \/ ClientSetToken
    \/ ClientClearToken
    \/ Get
    \/ Post
    \/ PostForm
    \/ Put
    \/ Patch
    \/ Delete

Spec == Init /\ [][Next]_vars

(***************************************************************************)
(* coreauth/services/auth.py: AuthService, used with the credential        *)
(* operations of the client.                                               *)
(***************************************************************************)
TenantIds == {"t1", "t2"}
Emails == {"u@x.com"}
Passwords == {"pw"}

\* What the server may answer to a facade call: every response of the model,
\* and the token pair of a successful login.
AuthOutcomes == NetOutcomes \cup {Response(200, TokenBody)}

\* A login that keeps the access token of a successful response.
AuthLoginStoresToken ==
    \E tenant_id \in TenantIds, email \in Emails, password \in Passwords,
       net \in AuthOutcomes :
        /\ wire' = <<HttpxRequest("POST", base_url \o "/api/auth/login", Headers, None,
                                  PDict([tenant_id |-> PStr(tenant_id), email |-> PStr(email),
                                         password |-> PStr(password)]),
                                  None)>>
        /\ resp' = net
        /\ result' = VerbResult(net)
        /\ token' = IF /\ VerbResult(net).kind = "return"
                       /\ VerbResult(net).value.t = "dict"
                       /\ "access_token" \in DOMAIN VerbResult(net).value.v
                    THEN VerbResult(net).value.v["access_token"]
                    ELSE token
        /\ call' = [op |-> "auth.login",
                    args |-> [tenant_id |-> PStr(tenant_id), email |-> PStr(email),
                              password |-> PStr(password)]]
        /\ UNCHANGED <<base_url, credOp, client, scope, threads>>

\* AuthService.login
AuthLogin ==
    \E tenant_id \in TenantIds, email \in Emails, password \in Passwords,
       net \in AuthOutcomes :
        /\ HttpPost("/api/auth/login",
                    PDict([tenant_id |-> PStr(tenant_id), email |-> PStr(email),
                           password |-> PStr(password)]),
                    net)
        /\ result' = VerbResult(net)
        /\ call' = [op |-> "auth.login",
                    args |-> [tenant_id |-> PStr(tenant_id), email |-> PStr(email),
                              password |-> PStr(password)]]

\* A logout that clears the credential after its request.
AuthLogoutClears ==
    \E net \in AuthOutcomes :
        /\ wire' = <<HttpxRequest("POST", base_url \o "/api/auth/logout", Headers, None, None, None)>>
        /\ resp' = net
        /\ result' = IF VerbResult(net).kind = "raise" THEN VerbResult(net) ELSE Return(None)
        /\ token' = IF VerbResult(net).kind = "raise" THEN token ELSE None
        /\ call' = [op |-> "auth.logout", args |-> EmptyMap]
        /\ UNCHANGED <<base_url, credOp, client, scope, threads>>

\* AuthService.logout: the value the transport returns is dropped.
AuthLogout ==
    \E net \in AuthOutcomes :
        /\ HttpPost("/api/auth/logout", None, net)
        /\ result' = IF VerbResult(net).kind = "raise" THEN VerbResult(net) ELSE Return(None)
        /\ call' = [op |-> "auth.logout", args |-> EmptyMap]

NextAuth ==
    \/ ClientSetToken
    \/ ClientClearToken
    \/ AuthLogin
    \/ AuthLogout

SpecAuth == Init /\ [][NextAuth]_vars

(***************************************************************************)
(* The facade methods that take optional query arguments                   *)
(* (coreauth/services/auth.py, audit.py, scim.py, oauth2.py, fga.py,       *)
(* webhooks.py).  Each builds its params mapping and makes one GET.        *)
(***************************************************************************)
MaxSupplied == 2    \* audit.query is called with at most this many arguments

OptStr == {None, PStr(""), PStr("v")}
OptInt == {None} \cup {PInt(i) : i \in 0..MaxInt}
OptBool == {None, PBool(FALSE), PBool(TRUE)}
Ids == {"id1"}

\* **params of list_users and list_scim_groups
ScimExtras == {EmptyMap, [sortBy |-> PStr("userName")], [startIndex |-> PInt(5)]}
\* **params of read_store_tuples and list_deliveries
PageExtras == {EmptyMap, [limit |-> PInt(10)]}

\* What the server answers to a query call.  These methods differ in the
\* request they build; what the transport makes of other answers is explored
\* by Spec.
QueryOutcomes == {Response(200, ObjectBody)}

\* if cond: d[key] = value
SetIf(d, cond, key, value) == IF cond THEN DictSet(d, key, value) ELSE d

\* create_login_flow_browser, create_login_flow_api: params
LoginFlowParams(organization_id, request_id) ==
    LET p0 == EmptyMap
        p1 == SetIf(p0, Truthy(organization_id), "organization_id", organization_id)
    IN  SetIf(p1, Truthy(request_id), "request_id", request_id)

\* create_registration_flow_browser, create_registration_flow_api: params
RegistrationFlowParams(organization_id) ==
    SetIf(EmptyMap, Truthy(organization_id), "organization_id", organization_id)

\* A plausible slip: limit is put into the mapping whether set or not.
AuditQueryParamsKeepsLimit(a) ==
    LET p0 == EmptyMap
        p1 == SetIf(p0, Truthy(a.tenant_id), "tenant_id", a.tenant_id)
        p2 == SetIf(p1, Truthy(a.event_types), "event_types", a.event_types)
        p3 == SetIf(p2, Truthy(a.user_id), "user_id", a.user_id)
        p4 == SetIf(p3, Truthy(a.start_date), "start_date", a.start_date)
        p5 == SetIf(p4, Truthy(a.end_date), "end_date", a.end_date)
        p6 == DictSet(p5, "limit", a.limit)
    IN  SetIf(p6, a.offset # None, "offset", a.offset)

\* AuditService.query: params
AuditQueryParams(a) ==
    LET p0 == EmptyMap
        p1 == SetIf(p0, Truthy(a.tenant_id), "tenant_id", a.tenant_id)
        p2 == SetIf(p1, Truthy(a.event_types), "event_types", a.event_types)
        p3 == SetIf(p2, Truthy(a.user_id), "user_id", a.user_id)
        p4 == SetIf(p3, Truthy(a.start_date), "start_date", a.start_date)
        p5 == SetIf(p4, Truthy(a.end_date), "end_date", a.end_date)
        p6 == SetIf(p5, a.limit # None, "limit", a.limit)
    IN  SetIf(p6, a.offset # None, "offset", a.offset)

\* ScimService.list_users, list_scim_groups: p
ScimListParams(filter, count, start_index, params) ==
    LET p0 == DictMerge(EmptyMap, params)
        p1 == SetIf(p0, Truthy(filter), "filter", filter)
        p2 == SetIf(p1, count # None, "count", count)
    IN  SetIf(p2, start_index # None, "startIndex", start_index)

\* ScimService.list_sessions: params
ListSessionsParams(user_id) ==
    SetIf(EmptyMap, Truthy(user_id), "user_id", user_id)

\* OAuth2Service.oidc_logout: params
OidcLogoutParams(id_token_hint, post_logout_redirect_uri, state) ==
    LET p0 == EmptyMap
        p1 == SetIf(p0, Truthy(id_token_hint), "id_token_hint", id_token_hint)
        p2 == SetIf(p1, Truthy(post_logout_redirect_uri),
                    "post_logout_redirect_uri", post_logout_redirect_uri)
    IN  SetIf(p2, Truthy(state), "state", state)

\* A plausible slip: include_inactive is tested like the string arguments.
ListStoresParamsTruthy(include_inactive) ==
    SetIf(EmptyMap, Truthy(include_inactive), "include_inactive", include_inactive)

\* FgaService.list_stores: params
ListStoresParams(include_inactive) ==
    SetIf(EmptyMap, include_inactive # None, "include_inactive", include_inactive)

AuditArgs ==
    {a \in [tenant_id : OptStr, event_types : OptStr, user_id : OptStr,
            start_date : OptStr, end_date : OptStr, limit : OptInt, offset : OptInt] :
        Cardinality({k \in DOMAIN a : a[k] # None}) <= MaxSupplied}

\* AuthService.create_login_flow_browser
AuthCreateLoginFlowBrowser ==
    \E organization_id \in OptStr, request_id \in OptStr, net \in QueryOutcomes :
        /\ HttpGet("/self-service/login/browser",
                   OrNone(PDict(LoginFlowParams(organization_id, request_id))), net)
        /\ result' = VerbResult(net)
        /\ call' = [op |-> "auth.create_login_flow_browser",
                    args |-> [organization_id |-> organization_id, request_id |-> request_id]]

\* AuthService.create_login_flow_api
AuthCreateLoginFlowApi ==
    \E organization_id \in OptStr, request_id \in OptStr, net \in QueryOutcomes :
        /\ HttpGet("/self-service/login/api",
                   OrNone(PDict(LoginFlowParams(organization_id, request_id))), net)
        /\ result' = VerbResult(net)
        /\ call' = [op |-> "auth.create_login_flow_api",
                    args |-> [organization_id |-> organization_id, request_id |-> request_id]]

\* AuthService.create_registration_flow_browser
AuthCreateRegistrationFlowBrowser ==
    \E organization_id \in OptStr, net \in QueryOutcomes :
        /\ HttpGet("/self-service/registration/browser",
                   OrNone(PDict(RegistrationFlowParams(organization_id))), net)
        /\ result' = VerbResult(net)
        /\ call' = [op |-> "auth.create_registration_flow_browser",
                    args |-> [organization_id |-> organization_id]]

\* AuthService.create_registration_flow_api
AuthCreateRegistrationFlowApi ==
    \E organization_id \in OptStr, net \in QueryOutcomes :
        /\ HttpGet("/self-service/registration/api",
                   OrNone(PDict(RegistrationFlowParams(organization_id))), net)
        /\ result' = VerbResult(net)
        /\ call' = [op |-> "auth.create_registration_flow_api",
                    args |-> [organization_id |-> organization_id]]

\* AuditService.query
AuditQuery ==
    \E a \in AuditArgs, net \in QueryOutcomes :
        /\ HttpGet("/api/audit/logs", OrNone(PDict(AuditQueryParams(a))), net)
        /\ result' = VerbResult(net)
        /\ call' = [op |-> "audit.query", args |-> a]

\* ScimService.list_users
ScimListUsers ==
    \E filter \in OptStr, count \in OptInt, start_index \in OptInt,
       params \in ScimExtras, net \in QueryOutcomes :
        /\ HttpGet("/scim/v2/Users",
                   OrNone(PDict(ScimListParams(filter, count, start_index, params))), net)
        /\ result' = VerbResult(net)
        /\ call' = [op |-> "scim.list_users",
                    args |-> [filter |-> filter, count |-> count,
                              start_index |-> start_index, extra |-> PDict(params)]]

\* ScimService.list_scim_groups
ScimListScimGroups ==
    \E filter \in OptStr, count \in OptInt, start_index \in OptInt,
       params \in ScimExtras, net \in QueryOutcomes :
        /\ HttpGet("/scim/v2/Groups",
                   OrNone(PDict(ScimListParams(filter, count, start_index, params))), net)
        /\ result' = VerbResult(net)
        /\ call' = [op |-> "scim.list_scim_groups",
                    args |-> [filter |-> filter, count |-> count,
                              start_index |-> start_index, extra |-> PDict(params)]]

\* ScimService.list_sessions
ScimListSessions ==
    \E user_id \in OptStr, net \in QueryOutcomes :
        /\ HttpGet("/api/sessions", OrNone(PDict(ListSessionsParams(user_id))), net)
        /\ result' = VerbResult(net)
        /\ call' = [op |-> "scim.list_sessions", args |-> [user_id |-> user_id]]

\* OAuth2Service.oidc_logout
OAuth2OidcLogout ==
    \E id_token_hint \in OptStr, post_logout_redirect_uri \in OptStr, state \in OptStr,
       net \in QueryOutcomes :
        /\ HttpGet("/logout",
                   OrNone(PDict(OidcLogoutParams(id_token_hint, post_logout_redirect_uri, state))),
                   net)
        /\ result' = VerbResult(net)
        /\ call' = [op |-> "oauth2.oidc_logout",
                    args |-> [id_token_hint |-> id_token_hint,
                              post_logout_redirect_uri |-> post_logout_redirect_uri,
                              state |-> state]]

\* FgaService.list_stores
FgaListStores ==
    \E include_inactive \in OptBool, net \in QueryOutcomes :
        /\ HttpGet("/api/fga/stores", OrNone(PDict(ListStoresParams(include_inactive))), net)
        /\ result' = VerbResult(net)
        /\ call' = [op |-> "fga.list_stores", args |-> [include_inactive |-> include_inactive]]

\* FgaService.read_store_tuples
FgaReadStoreTuples ==
    \E store_id \in Ids, params \in PageExtras, net \in QueryOutcomes :
        /\ HttpGet("/api/fga/stores/" \o store_id \o "/tuples", OrNone(PDict(params)), net)
        /\ result' = VerbResult(net)
        /\ call' = [op |-> "fga.read_store_tuples",
                    args |-> [store_id |-> PStr(store_id), extra |-> PDict(params)]]

\* WebhooksService.list_deliveries
WebhooksListDeliveries ==
    \E org_id \in Ids, webhook_id \in Ids, params \in PageExtras, net \in QueryOutcomes :
        /\ HttpGet("/api/organizations/" \o org_id \o "/webhooks/" \o webhook_id \o "/deliveries",
                   OrNone(PDict(params)), net)
        /\ result' = VerbResult(net)
        /\ call' = [op |-> "webhooks.list_deliveries",
                    args |-> [org_id |-> PStr(org_id), webhook_id |-> PStr(webhook_id),
                              extra |-> PDict(params)]]

NextQuery ==
    \/ AuthCreateLoginFlowBrowser
    \/ AuthCreateLoginFlowApi
    \/ AuthCreateRegistrationFlowBrowser
    \/ AuthCreateRegistrationFlowApi
    \/ AuditQuery
    \/ ScimListUsers
    \/ ScimListScimGroups
    \/ ScimListSessions
    \/ OAuth2OidcLogout
    \/ FgaListStores
    \/ FgaReadStoreTuples
    \/ WebhooksListDeliveries

SpecQuery == Init /\ [][NextQuery]_vars

(***************************************************************************)
(* coreauth/services/*.py: the public methods of the twelve facades.  A    *)
(* method formats its path, hands it to one verb method of the transport   *)
(* with at most one keyword (params, json or data) and returns what the    *)
(* transport returns; logout and connections.delete drop that value.  The  *)
(* content of the keyword's mapping is not part of the tables below.       *)
(* OAuth2Service.authorize is the one method that is not of this form.     *)
(***************************************************************************)
\* The path parameters of the methods, as the f-strings name them.
PathParameters ==
    {"{action_id}", "{app_id}", "{connection_id}", "{delivery_id}",
     "{group_id}", "{invitation_id}", "{key_id}", "{log_id}",
     "{method_id}", "{namespace}", "{object_id}", "{org_id}",
     "{provider_id}", "{provider_type}", "{relation}", "{role_id}",
     "{session_id}", "{slug}", "{store_id}", "{subject_id}",
     "{subject_type}", "{template_type}", "{tenant_id}", "{token_id}",
     "{user_id}", "{version}", "{webhook_id}"}

\* AuthService: a row for each public method that ends in
\* `self._http.<verb>(<path>, <keyword>=...)`.
AuthMethods ==
    {[name |-> "register", verb |-> "post", keyword |-> "json", returns |-> TRUE,
      path |-> <<"/api/auth/register">>],
     [name |-> "login", verb |-> "post", keyword |-> "json", returns |-> TRUE,
      path |-> <<"/api/auth/login">>],
     [name |-> "login_hierarchical", verb |-> "post", keyword |-> "json", returns |-> TRUE,
      path |-> <<"/api/auth/login-hierarchical">>],
     [name |-> "refresh_token", verb |-> "post", keyword |-> "json", returns |-> TRUE,
      path |-> <<"/api/auth/refresh">>],
     [name |-> "logout", verb |-> "post", keyword |-> "none", returns |-> FALSE,
      path |-> <<"/api/auth/logout">>],
     [name |-> "get_profile", verb |-> "get", keyword |-> "none", returns |-> TRUE,
      path |-> <<"/api/auth/me">>],
     [name |-> "update_profile", verb |-> "patch", keyword |-> "json", returns |-> TRUE,
      path |-> <<"/api/auth/me">>],
     [name |-> "change_password", verb |-> "post", keyword |-> "json", returns |-> TRUE,
      path |-> <<"/api/auth/change-password">>],
     [name |-> "verify_email", verb |-> "get", keyword |-> "params", returns |-> TRUE,
      path |-> <<"/api/verify-email">>],
     [name |-> "resend_verification", verb |-> "post", keyword |-> "none", returns |-> TRUE,
      path |-> <<"/api/auth/resend-verification">>],
     [name |-> "forgot_password", verb |-> "post", keyword |-> "json", returns |-> TRUE,
      path |-> <<"/api/auth/forgot-password">>],
     [name |-> "verify_reset_token", verb |-> "get", keyword |-> "params", returns |-> TRUE,
      path |-> <<"/api/auth/verify-reset-token">>],
     [name |-> "reset_password", verb |-> "post", keyword |-> "json", returns |-> TRUE,
      path |-> <<"/api/auth/reset-password">>],
     [name |-> "passwordless_start", verb |-> "post", keyword |-> "json", returns |-> TRUE,
      path |-> <<"/api/tenants/", "{tenant_id}", "/passwordless/start">>],
     [name |-> "passwordless_verify", verb |-> "post", keyword |-> "json", returns |-> TRUE,
      path |-> <<"/api/tenants/", "{tenant_id}", "/passwordless/verify">>],
     [name |-> "passwordless_resend", verb |-> "post", keyword |-> "json", returns |-> TRUE,
      path |-> <<"/api/tenants/", "{tenant_id}", "/passwordless/resend">>],
     [name |-> "create_login_flow_browser", verb |-> "get", keyword |-> "params", returns |-> TRUE,
      path |-> <<"/self-service/login/browser">>],
     [name |-> "create_login_flow_api", verb |-> "get", keyword |-> "params", returns |-> TRUE,
      path |-> <<"/self-service/login/api">>],
     [name |-> "get_login_flow", verb |-> "get", keyword |-> "params", returns |-> TRUE,
      path |-> <<"/self-service/login">>],
     [name |-> "submit_login_flow", verb |-> "post", keyword |-> "json", returns |-> TRUE,
      path |-> <<"/self-service/login">>],
     [name |-> "create_registration_flow_browser", verb |-> "get", keyword |-> "params", returns |-> TRUE,
      path |-> <<"/self-service/registration/browser">>],
     [name |-> "create_registration_flow_api", verb |-> "get", keyword |-> "params", returns |-> TRUE,
      path |-> <<"/self-service/registration/api">>],
     [name |-> "get_registration_flow", verb |-> "get", keyword |-> "params", returns |-> TRUE,
      path |-> <<"/self-service/registration">>],
     [name |-> "submit_registration_flow", verb |-> "post", keyword |-> "json", returns |-> TRUE,
      path |-> <<"/self-service/registration">>],
     [name |-> "whoami", verb |-> "get", keyword |-> "none", returns |-> TRUE,
      path |-> <<"/sessions/whoami">>]}

\* OAuth2Service: a row for each public method that ends in
\* `self._http.<verb>(<path>, <keyword>=...)`.
OAuth2Methods ==
    {[name |-> "discovery", verb |-> "get", keyword |-> "none", returns |-> TRUE,
      path |-> <<"/.well-known/openid-configuration">>],
     [name |-> "jwks", verb |-> "get", keyword |-> "none", returns |-> TRUE,
      path |-> <<"/.well-known/jwks.json">>],
     [name |-> "token", verb |-> "post_form", keyword |-> "data", returns |-> TRUE,
      path |-> <<"/oauth/token">>],
     [name |-> "userinfo", verb |-> "get", keyword |-> "none", returns |-> TRUE,
      path |-> <<"/userinfo">>],
     [name |-> "revoke", verb |-> "post_form", keyword |-> "data", returns |-> TRUE,
      path |-> <<"/oauth/revoke">>],
     [name |-> "introspect", verb |-> "post_form", keyword |-> "data", returns |-> TRUE,
      path |-> <<"/oauth/introspect">>],
     [name |-> "oidc_logout", verb |-> "get", keyword |-> "params", returns |-> TRUE,
      path |-> <<"/logout">>]}

\* MfaService: a row for each public method that ends in
\* `self._http.<verb>(<path>, <keyword>=...)`.
MfaMethods ==
    {[name |-> "enroll_totp", verb |-> "post", keyword |-> "none", returns |-> TRUE,
      path |-> <<"/api/mfa/enroll/totp">>],
     [name |-> "verify_totp", verb |-> "post", keyword |-> "json", returns |-> TRUE,
      path |-> <<"/api/mfa/totp/", "{method_id}", "/verify">>],
     [name |-> "enroll_sms", verb |-> "post", keyword |-> "json", returns |-> TRUE,
      path |-> <<"/api/mfa/enroll/sms">>],
     [name |-> "verify_sms", verb |-> "post", keyword |-> "json", returns |-> TRUE,
      path |-> <<"/api/mfa/sms/", "{method_id}", "/verify">>],
     [name |-> "resend_sms", verb |-> "post", keyword |-> "none", returns |-> TRUE,
      path |-> <<"/api/mfa/sms/", "{method_id}", "/resend">>],
     [name |-> "list_methods", verb |-> "get", keyword |-> "none", returns |-> TRUE,
      path |-> <<"/api/mfa/methods">>],
     [name |-> "delete_method", verb |-> "delete", keyword |-> "none", returns |-> TRUE,
      path |-> <<"/api/mfa/methods/", "{method_id}">>],
     [name |-> "regenerate_backup_codes", verb |-> "post", keyword |-> "none", returns |-> TRUE,
      path |-> <<"/api/mfa/backup-codes/regenerate">>],
     [name |-> "enroll_totp_with_token", verb |-> "post", keyword |-> "json", returns |-> TRUE,
      path |-> <<"/api/mfa/enroll-with-token/totp">>],
     [name |-> "verify_totp_with_token", verb |-> "post", keyword |-> "json", returns |-> TRUE,
      path |-> <<"/api/mfa/verify-with-token/totp/", "{method_id}">>]}

\* TenantsService: a row for each public method that ends in
\* `self._http.<verb>(<path>, <keyword>=...)`.
TenantsMethods ==
    {[name |-> "create", verb |-> "post", keyword |-> "json", returns |-> TRUE,
      path |-> <<"/api/tenants">>],
     [name |-> "get_by_slug", verb |-> "get", keyword |-> "none", returns |-> TRUE,
      path |-> <<"/api/organizations/by-slug/", "{slug}">>],
     [name |-> "list_users", verb |-> "get", keyword |-> "none", returns |-> TRUE,
      path |-> <<"/api/tenants/", "{tenant_id}", "/users">>],
     [name |-> "update_user_role", verb |-> "put", keyword |-> "json", returns |-> TRUE,
      path |-> <<"/api/tenants/", "{tenant_id}", "/users/", "{user_id}", "/role">>],
     [name |-> "get_security", verb |-> "get", keyword |-> "none", returns |-> TRUE,
      path |-> <<"/api/organizations/", "{org_id}", "/security">>],
     [name |-> "update_security", verb |-> "put", keyword |-> "json", returns |-> TRUE,
      path |-> <<"/api/organizations/", "{org_id}", "/security">>],
     [name |-> "get_branding", verb |-> "get", keyword |-> "none", returns |-> TRUE,
      path |-> <<"/api/organizations/", "{org_id}", "/branding">>],
     [name |-> "update_branding", verb |-> "put", keyword |-> "json", returns |-> TRUE,
      path |-> <<"/api/organizations/", "{org_id}", "/branding">>]}

\* ApplicationsService: a row for each public method that ends in
\* `self._http.<verb>(<path>, <keyword>=...)`.
ApplicationsMethods ==
    {[name |-> "create", verb |-> "post", keyword |-> "json", returns |-> TRUE,
      path |-> <<"/api/applications">>],
     [name |-> "list", verb |-> "get", keyword |-> "none", returns |-> TRUE,
      path |-> <<"/api/tenants/", "{tenant_id}", "/applications">>],
     [name |-> "get", verb |-> "get", keyword |-> "none", returns |-> TRUE,
      path |-> <<"/api/applications/", "{app_id}", "/tenants/", "{tenant_id}">>],
     [name |-> "update", verb |-> "post", keyword |-> "json", returns |-> TRUE,
      path |-> <<"/api/applications/", "{app_id}", "/tenants/", "{tenant_id}">>],
     [name |-> "rotate_secret", verb |-> "post", keyword |-> "none", returns |-> TRUE,
      path |-> <<"/api/applications/", "{app_id}", "/tenants/", "{tenant_id}", "/rotate-secret">>],
     [name |-> "delete", verb |-> "delete", keyword |-> "none", returns |-> TRUE,
      path |-> <<"/api/applications/", "{app_id}", "/tenants/", "{tenant_id}">>],
     [name |-> "authenticate", verb |-> "post", keyword |-> "json", returns |-> TRUE,
      path |-> <<"/api/applications/authenticate">>],
     [name |-> "create_oauth_app", verb |-> "post", keyword |-> "json", returns |-> TRUE,
      path |-> <<"/api/organizations/", "{org_id}", "/applications">>],
     [name |-> "list_oauth_apps", verb |-> "get", keyword |-> "none", returns |-> TRUE,
      path |-> <<"/api/organizations/", "{org_id}", "/applications">>],
     [name |-> "get_oauth_app", verb |-> "get", keyword |-> "none", returns |-> TRUE,
      path |-> <<"/api/organizations/", "{org_id}", "/applications/", "{app_id}">>],
     [name |-> "update_oauth_app", verb |-> "put", keyword |-> "json", returns |-> TRUE,
      path |-> <<"/api/organizations/", "{org_id}", "/applications/", "{app_id}">>],
     [name |-> "rotate_oauth_secret", verb |-> "post", keyword |-> "none", returns |-> TRUE,
      path |-> <<"/api/organizations/", "{org_id}", "/applications/", "{app_id}", "/rotate-secret">>],
     [name |-> "delete_oauth_app", verb |-> "delete", keyword |-> "none", returns |-> TRUE,
      path |-> <<"/api/organizations/", "{org_id}", "/applications/", "{app_id}">>],
     [name |-> "list_email_templates", verb |-> "get", keyword |-> "none", returns |-> TRUE,
      path |-> <<"/api/organizations/", "{org_id}", "/email-templates">>],
     [name |-> "get_email_template", verb |-> "get", keyword |-> "none", returns |-> TRUE,
      path |-> <<"/api/organizations/", "{org_id}", "/email-templates/", "{template_type}">>],
     [name |-> "update_email_template", verb |-> "put", keyword |-> "json", returns |-> TRUE,
      path |-> <<"/api/organizations/", "{org_id}", "/email-templates/", "{template_type}">>],
     [name |-> "delete_email_template", verb |-> "delete", keyword |-> "none", returns |-> TRUE,
      path |-> <<"/api/organizations/", "{org_id}", "/email-templates/", "{template_type}">>],
     [name |-> "preview_email_template", verb |-> "post", keyword |-> "json", returns |-> TRUE,
      path |-> <<"/api/organizations/", "{org_id}", "/email-templates/", "{template_type}", "/preview">>]}

\* FgaService: a row for each public method that ends in
\* `self._http.<verb>(<path>, <keyword>=...)`.
FgaMethods ==
    {[name |-> "create_tuple", verb |-> "post", keyword |-> "json", returns |-> TRUE,
      path |-> <<"/api/authz/tuples">>],
     [name |-> "delete_tuple", verb |-> "delete", keyword |-> "json", returns |-> TRUE,
      path |-> <<"/api/authz/tuples">>],
     [name |-> "query_tuples", verb |-> "post", keyword |-> "json", returns |-> TRUE,
      path |-> <<"/api/authz/tuples/query">>],
     [name |-> "get_object_tuples", verb |-> "get", keyword |-> "none", returns |-> TRUE,
      path |-> <<"/api/authz/tuples/by-object/", "{tenant_id}", "/", "{namespace}", "/", "{object_id}">>],
     [name |-> "get_subject_tuples", verb |-> "get", keyword |-> "none", returns |-> TRUE,
      path |-> <<"/api/authz/tuples/by-subject/", "{tenant_id}", "/", "{subject_type}", "/", "{subject_id}">>],
     [name |-> "check", verb |-> "post", keyword |-> "json", returns |-> TRUE,
      path |-> <<"/api/authz/check">>],
     [name |-> "expand", verb |-> "get", keyword |-> "none", returns |-> TRUE,
      path |-> <<"/api/authz/expand/", "{tenant_id}", "/", "{namespace}", "/", "{object_id}", "/", "{relation}">>],
     [name |-> "forward_auth", verb |-> "post", keyword |-> "json", returns |-> TRUE,
      path |-> <<"/authz/forward-auth">>],
     [name |-> "create_store", verb |-> "post", keyword |-> "json", returns |-> TRUE,
      path |-> <<"/api/fga/stores">>],
     [name |-> "list_stores", verb |-> "get", keyword |-> "params", returns |-> TRUE,
      path |-> <<"/api/fga/stores">>],
     [name |-> "get_store", verb |-> "get", keyword |-> "none", returns |-> TRUE,
      path |-> <<"/api/fga/stores/", "{store_id}">>],
     [name |-> "update_store", verb |-> "patch", keyword |-> "json", returns |-> TRUE,
      path |-> <<"/api/fga/stores/", "{store_id}">>],
     [name |-> "delete_store", verb |-> "delete", keyword |-> "none", returns |-> TRUE,
      path |-> <<"/api/fga/stores/", "{store_id}">>],
     [name |-> "write_model", verb |-> "post", keyword |-> "json", returns |-> TRUE,
      path |-> <<"/api/fga/stores/", "{store_id}", "/models">>],
     [name |-> "list_models", verb |-> "get", keyword |-> "none", returns |-> TRUE,
      path |-> <<"/api/fga/stores/", "{store_id}", "/models">>],
     [name |-> "get_current_model", verb |-> "get", keyword |-> "none", returns |-> TRUE,
      path |-> <<"/api/fga/stores/", "{store_id}", "/models/current">>],
     [name |-> "get_model_version", verb |-> "get", keyword |-> "none", returns |-> TRUE,
      path |-> <<"/api/fga/stores/", "{store_id}", "/models/", "{version}">>],
     [name |-> "create_api_key", verb |-> "post", keyword |-> "json", returns |-> TRUE,
      path |-> <<"/api/fga/stores/", "{store_id}", "/api-keys">>],
     [name |-> "list_api_keys", verb |-> "get", keyword |-> "none", returns |-> TRUE,
      path |-> <<"/api/fga/stores/", "{store_id}", "/api-keys">>],
     [name |-> "revoke_api_key", verb |-> "delete", keyword |-> "none", returns |-> TRUE,
      path |-> <<"/api/fga/stores/", "{store_id}", "/api-keys/", "{key_id}">>],
     [name |-> "store_check", verb |-> "post", keyword |-> "json", returns |-> TRUE,
      path |-> <<"/api/fga/stores/", "{store_id}", "/check">>],
     [name |-> "read_store_tuples", verb |-> "get", keyword |-> "params", returns |-> TRUE,
      path |-> <<"/api/fga/stores/", "{store_id}", "/tuples">>],
     [name |-> "write_store_tuples", verb |-> "post", keyword |-> "json", returns |-> TRUE,
      path |-> <<"/api/fga/stores/", "{store_id}", "/tuples">>]}

\* AuditService: a row for each public method that ends in
\* `self._http.<verb>(<path>, <keyword>=...)`.
AuditMethods ==
    {[name |-> "query", verb |-> "get", keyword |-> "params", returns |-> TRUE,
      path |-> <<"/api/audit/logs">>],
     [name |-> "get", verb |-> "get", keyword |-> "none", returns |-> TRUE,
      path |-> <<"/api/audit/logs/", "{log_id}">>],
     [name |-> "security_events", verb |-> "get", keyword |-> "none", returns |-> TRUE,
      path |-> <<"/api/audit/security-events">>],
     [name |-> "failed_logins", verb |-> "get", keyword |-> "none", returns |-> TRUE,
      path |-> <<"/api/audit/failed-logins/", "{user_id}">>],
     [name |-> "export", verb |-> "get", keyword |-> "none", returns |-> TRUE,
      path |-> <<"/api/audit/export">>],
     [name |-> "stats", verb |-> "get", keyword |-> "none", returns |-> TRUE,
      path |-> <<"/api/audit/stats">>],
     [name |-> "login_history", verb |-> "get", keyword |-> "none", returns |-> TRUE,
      path |-> <<"/api/login-history">>],
     [name |-> "security_audit_logs", verb |-> "get", keyword |-> "none", returns |-> TRUE,
      path |-> <<"/api/security/audit-logs">>]}

\* WebhooksService: a row for each public method that ends in
\* `self._http.<verb>(<path>, <keyword>=...)`.
WebhooksMethods ==
    {[name |-> "create", verb |-> "post", keyword |-> "json", returns |-> TRUE,
      path |-> <<"/api/organizations/", "{org_id}", "/webhooks">>],
     [name |-> "list", verb |-> "get", keyword |-> "none", returns |-> TRUE,
      path |-> <<"/api/organizations/", "{org_id}", "/webhooks">>],
     [name |-> "get", verb |-> "get", keyword |-> "none", returns |-> TRUE,
      path |-> <<"/api/organizations/", "{org_id}", "/webhooks/", "{webhook_id}">>],
     [name |-> "update", verb |-> "put", keyword |-> "json", returns |-> TRUE,
      path |-> <<"/api/organizations/", "{org_id}", "/webhooks/", "{webhook_id}">>],
     [name |-> "delete", verb |-> "delete", keyword |-> "none", returns |-> TRUE,
      path |-> <<"/api/organizations/", "{org_id}", "/webhooks/", "{webhook_id}">>],
     [name |-> "rotate_secret", verb |-> "post", keyword |-> "none", returns |-> TRUE,
      path |-> <<"/api/organizations/", "{org_id}", "/webhooks/", "{webhook_id}", "/rotate-secret">>],
     [name |-> "test", verb |-> "post", keyword |-> "json", returns |-> TRUE,
      path |-> <<"/api/organizations/", "{org_id}", "/webhooks/", "{webhook_id}", "/test">>],
     [name |-> "list_deliveries", verb |-> "get", keyword |-> "params", returns |-> TRUE,
      path |-> <<"/api/organizations/", "{org_id}", "/webhooks/", "{webhook_id}", "/deliveries">>],
     [name |-> "get_delivery", verb |-> "get", keyword |-> "none", returns |-> TRUE,
      path |-> <<"/api/organizations/", "{org_id}", "/webhooks/", "{webhook_id}", "/deliveries/", "{delivery_id}">>],
     [name |-> "retry_delivery", verb |-> "post", keyword |-> "none", returns |-> TRUE,
      path |-> <<"/api/organizations/", "{org_id}", "/webhooks/", "{webhook_id}", "/deliveries/", "{delivery_id}", "/retry">>],
     [name |-> "list_event_types", verb |-> "get", keyword |-> "none", returns |-> TRUE,
      path |-> <<"/api/webhooks/event-types">>]}

\* GroupsService: a row for each public method that ends in
\* `self._http.<verb>(<path>, <keyword>=...)`.
GroupsMethods ==
    {[name |-> "create", verb |-> "post", keyword |-> "json", returns |-> TRUE,
      path |-> <<"/api/tenants/", "{tenant_id}", "/groups">>],
     [name |-> "list", verb |-> "get", keyword |-> "none", returns |-> TRUE,
      path |-> <<"/api/tenants/", "{tenant_id}", "/groups">>],
     [name |-> "get", verb |-> "get", keyword |-> "none", returns |-> TRUE,
      path |-> <<"/api/tenants/", "{tenant_id}", "/groups/", "{group_id}">>],
     [name |-> "update", verb |-> "put", keyword |-> "json", returns |-> TRUE,
      path |-> <<"/api/tenants/", "{tenant_id}", "/groups/", "{group_id}">>],
     [name |-> "delete", verb |-> "delete", keyword |-> "none", returns |-> TRUE,
      path |-> <<"/api/tenants/", "{tenant_id}", "/groups/", "{group_id}">>],
     [name |-> "add_member", verb |-> "post", keyword |-> "json", returns |-> TRUE,
      path |-> <<"/api/tenants/", "{tenant_id}", "/groups/", "{group_id}", "/members">>],
     [name |-> "list_members", verb |-> "get", keyword |-> "none", returns |-> TRUE,
      path |-> <<"/api/tenants/", "{tenant_id}", "/groups/", "{group_id}", "/members">>],
     [name |-> "update_member", verb |-> "patch", keyword |-> "json", returns |-> TRUE,
      path |-> <<"/api/tenants/", "{tenant_id}", "/groups/", "{group_id}", "/members/", "{user_id}">>],
     [name |-> "remove_member", verb |-> "delete", keyword |-> "none", returns |-> TRUE,
      path |-> <<"/api/tenants/", "{tenant_id}", "/groups/", "{group_id}", "/members/", "{user_id}">>],
     [name |-> "assign_role", verb |-> "post", keyword |-> "json", returns |-> TRUE,
      path |-> <<"/api/tenants/", "{tenant_id}", "/groups/", "{group_id}", "/roles">>],
     [name |-> "list_roles", verb |-> "get", keyword |-> "none", returns |-> TRUE,
      path |-> <<"/api/tenants/", "{tenant_id}", "/groups/", "{group_id}", "/roles">>],
     [name |-> "remove_role", verb |-> "delete", keyword |-> "none", returns |-> TRUE,
      path |-> <<"/api/tenants/", "{tenant_id}", "/groups/", "{group_id}", "/roles/", "{role_id}">>],
     [name |-> "get_user_groups", verb |-> "get", keyword |-> "none", returns |-> TRUE,
      path |-> <<"/api/tenants/", "{tenant_id}", "/users/", "{user_id}", "/groups">>],
     [name |-> "create_invitation", verb |-> "post", keyword |-> "json", returns |-> TRUE,
      path |-> <<"/api/tenants/", "{tenant_id}", "/invitations">>],
     [name |-> "list_invitations", verb |-> "get", keyword |-> "none", returns |-> TRUE,
      path |-> <<"/api/tenants/", "{tenant_id}", "/invitations">>],
     [name |-> "revoke_invitation", verb |-> "delete", keyword |-> "none", returns |-> TRUE,
      path |-> <<"/api/tenants/", "{tenant_id}", "/invitations/", "{invitation_id}">>],
     [name |-> "resend_invitation", verb |-> "post", keyword |-> "none", returns |-> TRUE,
      path |-> <<"/api/tenants/", "{tenant_id}", "/invitations/", "{invitation_id}", "/resend">>],
     [name |-> "verify_invitation", verb |-> "get", keyword |-> "params", returns |-> TRUE,
      path |-> <<"/api/invitations/verify">>],
     [name |-> "accept_invitation", verb |-> "post", keyword |-> "json", returns |-> TRUE,
      path |-> <<"/api/invitations/accept">>]}

\* ScimService: a row for each public method that ends in
\* `self._http.<verb>(<path>, <keyword>=...)`.
ScimMethods ==
    {[name |-> "get_config", verb |-> "get", keyword |-> "none", returns |-> TRUE,
      path |-> <<"/scim/v2/ServiceProviderConfig">>],
     [name |-> "get_resource_types", verb |-> "get", keyword |-> "none", returns |-> TRUE,
      path |-> <<"/scim/v2/ResourceTypes">>],
     [name |-> "get_schemas", verb |-> "get", keyword |-> "none", returns |-> TRUE,
      path |-> <<"/scim/v2/Schemas">>],
     [name |-> "list_users", verb |-> "get", keyword |-> "params", returns |-> TRUE,
      path |-> <<"/scim/v2/Users">>],
     [name |-> "create_user", verb |-> "post", keyword |-> "json", returns |-> TRUE,
      path |-> <<"/scim/v2/Users">>],
     [name |-> "get_user", verb |-> "get", keyword |-> "none", returns |-> TRUE,
      path |-> <<"/scim/v2/Users/", "{user_id}">>],
     [name |-> "replace_user", verb |-> "put", keyword |-> "json", returns |-> TRUE,
      path |-> <<"/scim/v2/Users/", "{user_id}">>],
     [name |-> "patch_user", verb |-> "patch", keyword |-> "json", returns |-> TRUE,
      path |-> <<"/scim/v2/Users/", "{user_id}">>],
     [name |-> "delete_user", verb |-> "delete", keyword |-> "none", returns |-> TRUE,
      path |-> <<"/scim/v2/Users/", "{user_id}">>],
     [name |-> "list_scim_groups", verb |-> "get", keyword |-> "params", returns |-> TRUE,
      path |-> <<"/scim/v2/Groups">>],
     [name |-> "create_scim_group", verb |-> "post", keyword |-> "json", returns |-> TRUE,
      path |-> <<"/scim/v2/Groups">>],
     [name |-> "get_scim_group", verb |-> "get", keyword |-> "none", returns |-> TRUE,
      path |-> <<"/scim/v2/Groups/", "{group_id}">>],
     [name |-> "patch_scim_group", verb |-> "patch", keyword |-> "json", returns |-> TRUE,
      path |-> <<"/scim/v2/Groups/", "{group_id}">>],
     [name |-> "delete_scim_group", verb |-> "delete", keyword |-> "none", returns |-> TRUE,
      path |-> <<"/scim/v2/Groups/", "{group_id}">>],
     [name |-> "list_scim_tokens", verb |-> "get", keyword |-> "none", returns |-> TRUE,
      path |-> <<"/api/organizations/", "{org_id}", "/scim/tokens">>],
     [name |-> "create_scim_token", verb |-> "post", keyword |-> "json", returns |-> TRUE,
      path |-> <<"/api/organizations/", "{org_id}", "/scim/tokens">>],
     [name |-> "revoke_scim_token", verb |-> "delete", keyword |-> "none", returns |-> TRUE,
      path |-> <<"/api/organizations/", "{org_id}", "/scim/tokens/", "{token_id}">>],
     [name |-> "list_sessions", verb |-> "get", keyword |-> "params", returns |-> TRUE,
      path |-> <<"/api/sessions">>],
     [name |-> "revoke_session", verb |-> "delete", keyword |-> "none", returns |-> TRUE,
      path |-> <<"/api/sessions/", "{session_id}">>],
     [name |-> "revoke_all_sessions", verb |-> "post", keyword |-> "none", returns |-> TRUE,
      path |-> <<"/api/sessions/revoke-all">>],
     [name |-> "list_oidc_providers", verb |-> "get", keyword |-> "params", returns |-> TRUE,
      path |-> <<"/api/oidc/providers">>],
     [name |-> "create_oidc_provider", verb |-> "post", keyword |-> "json", returns |-> TRUE,
      path |-> <<"/api/oidc/providers">>],
     [name |-> "update_oidc_provider", verb |-> "patch", keyword |-> "json", returns |-> TRUE,
      path |-> <<"/api/oidc/providers/", "{provider_id}">>],
     [name |-> "delete_oidc_provider", verb |-> "delete", keyword |-> "none", returns |-> TRUE,
      path |-> <<"/api/oidc/providers/", "{provider_id}">>],
     [name |-> "list_public_providers", verb |-> "get", keyword |-> "params", returns |-> TRUE,
      path |-> <<"/api/oidc/providers/public">>],
     [name |-> "list_provider_templates", verb |-> "get", keyword |-> "none", returns |-> TRUE,
      path |-> <<"/api/oidc/templates">>],
     [name |-> "get_provider_template", verb |-> "get", keyword |-> "none", returns |-> TRUE,
      path |-> <<"/api/oidc/templates/", "{provider_type}">>],
     [name |-> "sso_check", verb |-> "get", keyword |-> "params", returns |-> TRUE,
      path |-> <<"/api/oidc/sso-check">>]}

\* AdminService: a row for each public method that ends in
\* `self._http.<verb>(<path>, <keyword>=...)`.
AdminMethods ==
    {[name |-> "list_tenants", verb |-> "get", keyword |-> "none", returns |-> TRUE,
      path |-> <<"/api/admin/tenants">>],
     [name |-> "create_tenant", verb |-> "post", keyword |-> "json", returns |-> TRUE,
      path |-> <<"/api/admin/tenants">>],
     [name |-> "get_stats", verb |-> "get", keyword |-> "none", returns |-> TRUE,
      path |-> <<"/api/admin/tenants/stats">>],
     [name |-> "get_tenant", verb |-> "get", keyword |-> "none", returns |-> TRUE,
      path |-> <<"/api/admin/tenants/", "{tenant_id}">>],
     [name |-> "configure_database", verb |-> "post", keyword |-> "json", returns |-> TRUE,
      path |-> <<"/api/admin/tenants/", "{tenant_id}", "/database">>],
     [name |-> "activate", verb |-> "post", keyword |-> "none", returns |-> TRUE,
      path |-> <<"/api/admin/tenants/", "{tenant_id}", "/activate">>],
     [name |-> "suspend", verb |-> "post", keyword |-> "none", returns |-> TRUE,
      path |-> <<"/api/admin/tenants/", "{tenant_id}", "/suspend">>],
     [name |-> "test_connection", verb |-> "post", keyword |-> "none", returns |-> TRUE,
      path |-> <<"/api/admin/tenants/", "{tenant_id}", "/test-connection">>],
     [name |-> "create_action", verb |-> "post", keyword |-> "json", returns |-> TRUE,
      path |-> <<"/api/organizations/", "{org_id}", "/actions">>],
     [name |-> "list_actions", verb |-> "get", keyword |-> "none", returns |-> TRUE,
      path |-> <<"/api/organizations/", "{org_id}", "/actions">>],
     [name |-> "get_action", verb |-> "get", keyword |-> "none", returns |-> TRUE,
      path |-> <<"/api/organizations/", "{org_id}", "/actions/", "{action_id}">>],
     [name |-> "update_action", verb |-> "put", keyword |-> "json", returns |-> TRUE,
      path |-> <<"/api/organizations/", "{org_id}", "/actions/", "{action_id}">>],
     [name |-> "delete_action", verb |-> "delete", keyword |-> "none", returns |-> TRUE,
      path |-> <<"/api/organizations/", "{org_id}", "/actions/", "{action_id}">>],
     [name |-> "test_action", verb |-> "post", keyword |-> "json", returns |-> TRUE,
      path |-> <<"/api/organizations/", "{org_id}", "/actions/", "{action_id}", "/test">>],
     [name |-> "get_action_executions", verb |-> "get", keyword |-> "none", returns |-> TRUE,
      path |-> <<"/api/organizations/", "{org_id}", "/actions/", "{action_id}", "/executions">>],
     [name |-> "get_org_executions", verb |-> "get", keyword |-> "none", returns |-> TRUE,
      path |-> <<"/api/organizations/", "{org_id}", "/actions/executions">>],
     [name |-> "get_rate_limits", verb |-> "get", keyword |-> "none", returns |-> TRUE,
      path |-> <<"/api/tenants/", "{tenant_id}", "/rate-limits">>],
     [name |-> "update_rate_limits", verb |-> "put", keyword |-> "json", returns |-> TRUE,
      path |-> <<"/api/tenants/", "{tenant_id}", "/rate-limits">>],
     [name |-> "get_token_claims", verb |-> "get", keyword |-> "none", returns |-> TRUE,
      path |-> <<"/api/tenants/", "{tenant_id}", "/applications/", "{app_id}", "/token-claims">>],
     [name |-> "update_token_claims", verb |-> "put", keyword |-> "json", returns |-> TRUE,
      path |-> <<"/api/tenants/", "{tenant_id}", "/applications/", "{app_id}", "/token-claims">>],
     [name |-> "health", verb |-> "get", keyword |-> "none", returns |-> TRUE,
      path |-> <<"/health">>]}

\* ConnectionsService: a row for each public method that ends in
\* `self._http.<verb>(<path>, <keyword>=...)`.
ConnectionsMethods ==
    {[name |-> "list", verb |-> "get", keyword |-> "none", returns |-> TRUE,
      path |-> <<"/api/organizations/", "{org_id}", "/connections">>],
     [name |-> "create", verb |-> "post", keyword |-> "json", returns |-> TRUE,
      path |-> <<"/api/organizations/", "{org_id}", "/connections">>],
     [name |-> "get", verb |-> "get", keyword |-> "none", returns |-> TRUE,
      path |-> <<"/api/organizations/", "{org_id}", "/connections/", "{connection_id}">>],
     [name |-> "update", verb |-> "put", keyword |-> "json", returns |-> TRUE,
      path |-> <<"/api/organizations/", "{org_id}", "/connections/", "{connection_id}">>],
     [name |-> "delete", verb |-> "delete", keyword |-> "none", returns |-> FALSE,
      path |-> <<"/api/organizations/", "{org_id}", "/connections/", "{connection_id}">>],
     [name |-> "get_auth_methods", verb |-> "get", keyword |-> "none", returns |-> TRUE,
      path |-> <<"/api/organizations/", "{org_id}", "/connections/auth-methods">>],
     [name |-> "list_all", verb |-> "get", keyword |-> "none", returns |-> TRUE,
      path |-> <<"/api/admin/connections">>],
     [name |-> "create_platform", verb |-> "post", keyword |-> "json", returns |-> TRUE,
      path |-> <<"/api/admin/connections">>]}

\* What the server answers to a facade call: a token pair, no content, a
\* refusal of the credential, or nothing at all.
FacadeOutcomes ==
    {Response(200, TokenBody), Response(204, ""), Response(401, ErrorBody("x", "y")),
     HTTPError("ConnectError")}

\* The f-string of a path: every path parameter is replaced by its argument.
RECURSIVE RenderPath(_, _)
RenderPath(p, id) ==
    IF p = <<>> THEN ""
    ELSE (IF Head(p) \in PathParameters THEN id ELSE Head(p)) \o RenderPath(Tail(p), id)

\* The mapping a method passes with the keyword kw, None without it.
FacadePayload(m, kw) == IF m.keyword = kw THEN PDict([field |-> PStr("v")]) ELSE None

\* self._http.<verb>(<path>, <keyword>=...)
FacadeRequest(m, path, net) ==
    CASE m.verb = "get" -> HttpGet(path, FacadePayload(m, "params"), net)
      [] m.verb = "post" -> HttpPost(path, FacadePayload(m, "json"), net)
      [] m.verb = "post_form" -> HttpPostForm(path, FacadePayload(m, "data"), net)
      [] m.verb = "put" -> HttpPut(path, FacadePayload(m, "json"), net)
      [] m.verb = "patch" -> HttpPatch(path, FacadePayload(m, "json"), net)
      [] m.verb = "delete" -> HttpDelete(path, FacadePayload(m, "json"), net)

\* A plausible slip: a call that is answered with a token pair keeps the
\* access token as the credential.
FacadeCallStoresToken(service, methods) ==
    \E m \in methods, id \in Ids, net \in FacadeOutcomes :
        /\ wire' = <<HttpxRequest(IF m.verb = "get" THEN "GET" ELSE "POST",
                                  base_url \o RenderPath(m.path, id),
                                  IF m.verb = "post_form" THEN FormHeaders ELSE Headers,
                                  FacadePayload(m, "params"), FacadePayload(m, "json"),
                                  FacadePayload(m, "data"))>>
        /\ resp' = net
        /\ result' = IF m.returns \/ VerbResult(net).kind = "raise"
                     THEN VerbResult(net)
                     ELSE Return(None)
        /\ token' = IF net = Response(200, TokenBody) THEN PStr("A") ELSE token
        /\ call' = [op |-> service \o "." \o m.name, args |-> [id |-> PStr(id)]]
        /\ UNCHANGED <<base_url, credOp, client, scope, threads>>

\* A plausible slip: a facade keeps the headers of the token the client was
\* constructed with.
FacadeCallOwnToken(service, methods) ==
    \E m \in methods, id \in Ids, net \in FacadeOutcomes :
        /\ wire' = <<HttpxRequest(IF m.verb = "get" THEN "GET" ELSE "POST",
                                  base_url \o RenderPath(m.path, id),
                                  IF call.op = "init" /\ Truthy(call.args.token)
                                  THEN [k \in {"Authorization"} |->
                                            "Bearer " \o Format(call.args.token)]
                                  ELSE EmptyMap,
                                  FacadePayload(m, "params"), FacadePayload(m, "json"),
                                  FacadePayload(m, "data"))>>
        /\ resp' = net
        /\ result' = IF m.returns \/ VerbResult(net).kind = "raise"
                     THEN VerbResult(net)
                     ELSE Return(None)
        /\ call' = [op |-> service \o "." \o m.name, args |-> [id |-> PStr(id)]]
        /\ UNCHANGED <<base_url, token, credOp, client, scope, threads>>

\* One call of a method of the facade `service`.
FacadeCall(service, methods) ==
    \E m \in methods, id \in Ids, net \in FacadeOutcomes :
        /\ FacadeRequest(m, RenderPath(m.path, id), net)
        /\ result' = IF m.returns \/ VerbResult(net).kind = "raise"
                     THEN VerbResult(net)
                     ELSE Return(None)
        /\ call' = [op |-> service \o "." \o m.name, args |-> [id |-> PStr(id)]]


\* The arguments of OAuth2Service.authorize.
ClientIds == {"app1"}
RedirectUris == {"https://app/cb"}
ResponseTypes == {Omitted, PStr("token")}
Scopes == {Omitted, PStr("openid profile")}
AuthorizeExtras == {<<>>, <<<<"state", PStr("s1")>>>>}

\* urllib.parse.quote_plus on the argument values of the model
QuotePlus(v) ==
    CASE v = "https://app/cb" -> "https%3A%2F%2Fapp%2Fcb"
      [] v = "openid profile" -> "openid+profile"
      [] OTHER -> v

\* urllib.parse.urlencode of a mapping, given as its items in order
RECURSIVE UrlEncode(_)
UrlEncode(items) ==
    IF items = <<>> THEN ""
    ELSE Head(items)[1] \o "=" \o QuotePlus(Format(Head(items)[2]))
            \o (IF Tail(items) = <<>> THEN "" ELSE "&" \o UrlEncode(Tail(items)))

\* The stored base address, as the pieces rstrip works on.
BasePieces == CHOOSE b \in BaseInputs : Join(b) = base_url

\* The URL OAuth2Service.authorize returns.
AuthorizeUrl(client_id, redirect_uri, response_type, scope_arg, params) ==
    LET query == <<<<"client_id", PStr(client_id)>>, <<"redirect_uri", PStr(redirect_uri)>>,
                   <<"response_type", Param(response_type, PStr("code"))>>,
                   <<"scope", Param(scope_arg, PStr("openid"))>>>> \o params
    IN  Join(RStripSlash(BasePieces)) \o "/authorize?" \o UrlEncode(query)

\* A plausible slip: authorize fetches the URL it has built.
OAuth2AuthorizeFetches ==
    \E client_id \in ClientIds, redirect_uri \in RedirectUris,
       response_type \in ResponseTypes, scope_arg \in Scopes, params \in AuthorizeExtras,
       net \in FacadeOutcomes :
        /\ HttpGet("/authorize", None, net)
        /\ result' = VerbResult(net)
        /\ call' = [op |-> "oauth2.authorize",
                    args |-> [client_id |-> PStr(client_id), redirect_uri |-> PStr(redirect_uri),
                              response_type |-> response_type, scope |-> scope_arg,
                              params |-> PList(params)]]

\* OAuth2Service.authorize: builds and returns a URL; the transport is not
\* called.
OAuth2Authorize ==
    \E client_id \in ClientIds, redirect_uri \in RedirectUris,
       response_type \in ResponseTypes, scope_arg \in Scopes, params \in AuthorizeExtras :
        /\ wire' = <<>>
        /\ resp' = None
        /\ result' = Return(PStr(AuthorizeUrl(client_id, redirect_uri, response_type,
                                              scope_arg, params)))
        /\ call' = [op |-> "oauth2.authorize",
                    args |-> [client_id |-> PStr(client_id), redirect_uri |-> PStr(redirect_uri),
                              response_type |-> response_type, scope |-> scope_arg,
                              params |-> PList(params)]]
        /\ UNCHANGED <<base_url, token, credOp, client, scope, threads>>

NextFacades ==
    \/ FacadeCall("auth", AuthMethods)
    \/ FacadeCall("oauth2", OAuth2Methods)
    \/ OAuth2Authorize
    \/ FacadeCall("mfa", MfaMethods)
    \/ FacadeCall("tenants", TenantsMethods)
    \/ FacadeCall("applications", ApplicationsMethods)
    \/ FacadeCall("fga", FgaMethods)
    \/ FacadeCall("audit", AuditMethods)
    \/ FacadeCall("webhooks", WebhooksMethods)
    \/ FacadeCall("groups", GroupsMethods)
    \/ FacadeCall("scim", ScimMethods)
    \/ FacadeCall("admin", AdminMethods)
    \/ FacadeCall("connections", ConnectionsMethods)

SpecFacades == Init /\ [][NextFacades]_vars

\* The facades of a client whose credential the caller sets and clears.
NextClient ==
    \/ ClientSetToken
    \/ ClientClearToken
    \/ NextFacades

SpecClient == Init /\ [][NextClient]_vars

(***************************************************************************)
(* The facade methods that merge **kwargs into a body or a query whose     *)
(* other fields come from named arguments (services/auth.py, tenants.py,   *)
(* scim.py).  Python binds a keyword to the parameter of that name, so the *)
(* bag holds only keys that are not parameter names.                       *)
(***************************************************************************)
\* **kwargs of submit_login_flow and submit_registration_flow
FlowExtras == {EmptyMap, [method |-> PStr("password")], [flow |-> PStr("f2")]}
\* **kwargs of TenantsService.create
TenantExtras == {EmptyMap, [plan |-> PStr("pro")]}

\* {"flow": flow_id, **kwargs}: a key of the bag replaces the key before it.
SubmitFlowBody(flow_id, kwargs) == DictMerge([flow |-> flow_id], kwargs)

\* AuthService.submit_login_flow
AuthSubmitLoginFlow ==
    \E flow_id \in Ids, kwargs \in FlowExtras, net \in QueryOutcomes :
        /\ HttpPost("/self-service/login", PDict(SubmitFlowBody(PStr(flow_id), kwargs)), net)
        /\ result' = VerbResult(net)
        /\ call' = [op |-> "auth.submit_login_flow",
                    args |-> [flow_id |-> PStr(flow_id), extra |-> PDict(kwargs)]]

\* AuthService.submit_registration_flow
AuthSubmitRegistrationFlow ==
    \E flow_id \in Ids, kwargs \in FlowExtras, net \in QueryOutcomes :
        /\ HttpPost("/self-service/registration", PDict(SubmitFlowBody(PStr(flow_id), kwargs)), net)
        /\ result' = VerbResult(net)
        /\ call' = [op |-> "auth.submit_registration_flow",
                    args |-> [flow_id |-> PStr(flow_id), extra |-> PDict(kwargs)]]

\* TenantsService.create
TenantsCreate ==
    \E name \in {"n"}, slug \in {"s"}, admin_email \in Emails, admin_password \in Passwords,
       admin_full_name \in OptStr, kwargs \in TenantExtras, net \in QueryOutcomes :
        LET body0 == DictMerge([name |-> PStr(name), slug |-> PStr(slug),
                                admin_email |-> PStr(admin_email),
                                admin_password |-> PStr(admin_password)], kwargs)
            body == SetIf(body0, Truthy(admin_full_name), "admin_full_name", admin_full_name)
        IN  /\ HttpPost("/api/tenants", PDict(body), net)
            /\ result' = VerbResult(net)
            /\ call' = [op |-> "tenants.create",
                        args |-> [name |-> PStr(name), slug |-> PStr(slug),
                                  admin_email |-> PStr(admin_email),
                                  admin_password |-> PStr(admin_password),
                                  admin_full_name |-> admin_full_name,
                                  extra |-> PDict(kwargs)]]

NextMerge ==
    \/ AuthSubmitLoginFlow
    \/ AuthSubmitRegistrationFlow
    \/ TenantsCreate
    \/ ScimListUsers

SpecMerge == Init /\ [][NextMerge]_vars

(***************************************************************************)
(* coreauth/exceptions.py: the error classes constructed directly, with    *)
(* and without explicit arguments.                                         *)
(***************************************************************************)
ErrorArgs == {Omitted, PStr(""), PStr("x")}
MessageArgs == {Omitted, PStr(""), PStr("y")}
SpecificClasses ==
    {"AuthenticationError", "ForbiddenError", "NotFoundError", "ConflictError",
     "ValidationError", "RateLimitError"}

\* cls(), cls(error), cls(message=message), cls(error, message) for the six
\* specific classes
NewSpecificError ==
    \E cls \in SpecificClasses, error \in ErrorArgs, message \in MessageArgs :
        /\ result' = SpecificError(cls, Param(error, DefaultError(cls)),
                                   Param(message, DefaultMessage(cls)))
        /\ call' = [op |-> "new", args |-> [cls |-> cls, error |-> error, message |-> message]]
        /\ wire' = <<>>
        /\ resp' = None
        /\ UNCHANGED <<base_url, token, credOp, client, scope, threads>>

\* ApiError(status_code), ApiError(status_code, error), ...
NewApiError ==
    \E status_code \in Statuses, error \in ErrorArgs, message \in MessageArgs :
        /\ result' = ApiError(status_code, Param(error, PStr("")), Param(message, PStr("")))
        /\ call' = [op |-> "new",
                    args |-> [cls |-> "ApiError", status_code |-> PInt(status_code),
                              error |-> error, message |-> message]]
        /\ wire' = <<>>
        /\ resp' = None
        /\ UNCHANGED <<base_url, token, credOp, client, scope, threads>>

NextErrors ==
    \/ NewSpecificError
    \/ NewApiError

SpecErrors == Init /\ [][NextErrors]_vars

(***************************************************************************)
(* coreauth/client.py: close, __enter__ and __exit__, with the statement   *)
(* `with CoreAuthClient(...) as c: body` that calls the latter two.        *)
(***************************************************************************)
\* The client object itself, as __enter__ returns it.
Self == [t |-> "CoreAuthClient"]

\* An exception of the caller's own code inside the block.
KeyError == [kind |-> "raise", cls |-> "KeyError", bases |-> {"KeyError", "LookupError"}]

\* A plausible slip: the pool is closed behind a flag, once.
HttpCloseOnce == client' = [closes |-> IF client.closes = 0 THEN 1 ELSE client.closes]

\* HttpClient.close: self._client.close(), whatever the pool's state
HttpClose == client' = [closes |-> client.closes + 1]

\* CoreAuthClient.close.  Inside a block one close is left for the exit.
ClientClose ==
    /\ client.closes < (IF scope.at = "inside" THEN MaxCloses - 1 ELSE MaxCloses)
    /\ HttpClose
    /\ call' = [op |-> "close", args |-> EmptyMap]
    /\ wire' = <<>>
    /\ resp' = None
    /\ result' = Return(None)
    /\ UNCHANGED <<base_url, token, credOp, scope, threads>>

\* CoreAuthClient.__enter__, called by the with statement
ClientEnter ==
    /\ scope.at # "inside"
    /\ client.closes < MaxCloses
    /\ scope' = [at |-> "inside", exc |-> None]
    /\ call' = [op |-> "__enter__", args |-> EmptyMap]
    /\ wire' = <<>>
    /\ resp' = None
    /\ result' = Return(Self)
    /\ UNCHANGED <<base_url, token, credOp, client, threads>>

\* A request that the caller makes while the pool is open and, inside a
\* block, while the body runs.  What httpx does with a pool that was closed
\* is the library's and is not explored.
ScopedGet ==
    /\ client.closes = 0
    /\ scope.exc = None
    /\ Get

\* The body of the block ends with an exception: the one the last call of
\* the client raised, which the body does not catch, or one of its own.
BodyRaises ==
    /\ scope.at = "inside"
    /\ scope.exc = None
    /\ \E e \in {KeyError} \cup (IF result.kind = "raise" THEN {result} ELSE {}) :
            /\ scope' = [at |-> "inside", exc |-> e]
            /\ call' = [op |-> "body", args |-> [exc |-> PStr(e.cls)]]
    /\ UNCHANGED <<base_url, token, credOp, wire, resp, result, client, threads>>

\* A plausible slip: the pool is closed on the normal exit only.
ClientExitNormalOnly ==
    /\ scope.at = "inside"
    /\ client' = [closes |-> IF scope.exc = None THEN client.closes + 1 ELSE client.closes]
    /\ scope' = [at |-> "exited", exc |-> scope.exc]
    /\ call' = [op |-> "__exit__", args |-> [exc |-> scope.exc]]
    /\ wire' = <<>>
    /\ resp' = None
    /\ result' = IF scope.exc = None THEN Return(None) ELSE scope.exc
    /\ UNCHANGED <<base_url, token, credOp, threads>>

\* CoreAuthClient.__exit__, called by the with statement when the body has
\* ended: it closes and returns None, so an exception of the body is raised
\* again by the statement.
ClientExit ==
    /\ scope.at = "inside"
    /\ HttpClose
    /\ scope' = [at |-> "exited", exc |-> scope.exc]
    /\ call' = [op |-> "__exit__", args |-> [exc |-> scope.exc]]
    /\ wire' = <<>>
    /\ resp' = None
    /\ result' = IF scope.exc = None THEN Return(None) ELSE scope.exc
    /\ UNCHANGED <<base_url, token, credOp, threads>>

NextScope ==
    \/ ClientEnter
    \/ ScopedGet
    \/ BodyRaises
    \/ ClientExit
    \/ ClientClose

SpecScope == Init /\ [][NextScope]_vars

(***************************************************************************)
(* coreauth/_http.py: the verb methods called by several callers at once.  *)
(* A call reads the token twice while it builds its headers (the test and  *)
(* the f-string of _headers), hands the request to the pool and later gets *)
(* its own response; the steps of the callers interleave with each other   *)
(* and with set_token and clear_token.                                     *)
(***************************************************************************)
ThreadVerbs == {"get"}
ThreadTokens == {"", Token(1)}
ThreadOutcomes ==
    {Response(200, ObjectBody), Response(200, HtmlBody),
     Response(404, ErrorBody("x", "y")), HTTPError("ConnectError")}

\* The caller th steps to the record r.
ThreadStep(th, r) == threads' = [threads EXCEPT ![th] = r]

\* History: a credential operation adds the new token to what the credential
\* held during every request that is being built.
Holding(t) ==
    [th \in Threads |->
        IF threads[th].pc \in {"test", "format"}
        THEN [threads[th] EXCEPT !.held = @ \cup {t}]
        ELSE threads[th]]

\* get / post_form entered: url = f"{self._base_url}{path}", and the first
\* line of _headers / _form_headers
ThreadCall(th) ==
    \E verb \in ThreadVerbs, path \in Paths :
        /\ threads[th].pc \in {"idle", "done"}
        /\ ThreadStep(th,
              [Idle EXCEPT !.pc = "test", !.verb = verb, !.path = base_url \o path,
                           !.held = {token},
                           !.headers = [k \in {"Content-Type"} |->
                                           IF verb = "post_form"
                                           THEN "application/x-www-form-urlencoded"
                                           ELSE "application/json"]])
        /\ UNCHANGED <<base_url, token, credOp, call, wire, resp, result, client, scope>>

\* The request of th, with the headers it has built, goes to the pool.
Sent(r) ==
    [r EXCEPT !.pc = "wait",
              !.request = HttpxRequest(IF r.verb = "get" THEN "GET" ELSE "POST", r.path,
                                       r.headers, None, None, None)]

\* `if self._token:`.  Without a token the headers are complete and the
\* request is sent.
ThreadTestToken(th) ==
    /\ threads[th].pc = "test"
    /\ ThreadStep(th, IF Truthy(token)
                      THEN [threads[th] EXCEPT !.pc = "format"]
                      ELSE Sent(threads[th]))
    /\ UNCHANGED <<base_url, token, credOp, call, wire, resp, result, client, scope>>

\* headers["Authorization"] = f"Bearer {self._token}", then the request is
\* sent.
ThreadFormatToken(th) ==
    /\ threads[th].pc = "format"
    /\ ThreadStep(th, Sent([threads[th] EXCEPT
                                !.headers = DictSet(@, "Authorization",
                                                    "Bearer " \o Format(token))]))
    /\ UNCHANGED <<base_url, token, credOp, call, wire, resp, result, client, scope>>

\* A plausible slip: the response is kept in a field of the client, so that
\* every caller that waits takes it for its own.
ThreadReceiveShared(th) ==
    \E net \in ThreadOutcomes :
        /\ threads[th].pc = "wait"
        /\ threads' = [u \in Threads |->
                          IF threads[u].pc = "wait"
                          THEN [threads[u] EXCEPT !.pc = "done", !.held = {}, !.resp = net,
                                                  !.result = VerbResult(net)]
                          ELSE threads[u]]
        /\ UNCHANGED <<base_url, token, credOp, call, wire, resp, result, client, scope>>

\* The attempt of th ends: an httpx.HTTPError becomes CoreAuthError, a
\* response goes to _handle_response.  The history of the construction is
\* dropped.
ThreadReceive(th) ==
    \E net \in ThreadOutcomes :
        /\ threads[th].pc = "wait"
        /\ ThreadStep(th, [threads[th] EXCEPT !.pc = "done", !.held = {}, !.resp = net,
                                              !.result = VerbResult(net)])
        /\ UNCHANGED <<base_url, token, credOp, call, wire, resp, result, client, scope>>

\* CoreAuthClient.set_token, called while requests may be in flight
ThreadsSetToken ==
    \E t \in ThreadTokens :
        /\ HttpSetToken(PStr(t))
        /\ call' = [op |-> "set_token", args |-> [token |-> PStr(t)]]
        /\ threads' = Holding(PStr(t))

\* CoreAuthClient.clear_token, called while requests may be in flight
ThreadsClearToken ==
    /\ HttpClearToken
    /\ call' = [op |-> "clear_token", args |-> EmptyMap]
    /\ threads' = Holding(None)

NextThreads ==
    \/ \E th \in Threads : ThreadCall(th)
    \/ \E th \in Threads : ThreadTestToken(th)
    \/ \E th \in Threads : ThreadFormatToken(th)
    \/ \E th \in Threads : ThreadReceive(th)
    \/ ThreadsSetToken
    \/ ThreadsClearToken

SpecThreads == Init /\ [][NextThreads]_vars

(***************************************************************************)
(* Properties.                                                             *)
(***************************************************************************)

\* The status table of the specification (section 4.1).
KindOfStatus(s) ==
    CASE s = 400 -> "ValidationError"
      [] s = 401 -> "AuthenticationError"
      [] s = 403 -> "ForbiddenError"
      [] s = 404 -> "NotFoundError"
      [] s = 409 -> "ConflictError"
      [] s = 429 -> "RateLimitError"
      [] OTHER -> "ApiError"

MappedStatuses == {400, 401, 403, 404, 409, 429}
IsSuccessStatus(s) == s \in 200..299
GotResponse == resp.t = "response"
Raised == result.kind = "raise"

\* C1: a response with a status in {400, 401, 403, 404, 409, 429} and a JSON
\* body {error: E, message: M} fails with the error kind mapped to the status,
\* carrying exactly E and M and not the kind's defaults.
C1_MappedErrorCarriesBody ==
    \A s \in MappedStatuses, E \in ErrorCodes, M \in Messages :
        resp = Response(s, ErrorBody(E, M)) =>
            /\ Raised
            /\ result.cls = KindOfStatus(s)
            /\ result.error = PStr(E)
            /\ result.message = PStr(M)

C1_Witness ==
    /\ call.op \in VerbOps
    /\ resp = Response(404, ErrorBody("x", "y"))
    /\ Raised
    /\ result.cls = "NotFoundError"
    /\ result.error = PStr("x")
    /\ result.message = PStr("y")
    /\ result.error # DefaultError("NotFoundError")

\* C2: a response whose status is neither 2xx nor one of the six mapped
\* statuses fails with the generic ApiError carrying the raw status code and
\* the error and message of the body; it never returns a value.
C2_UnmappedStatusIsApiError ==
    (GotResponse /\ ~IsSuccessStatus(resp.status_code)
        /\ resp.status_code \notin MappedStatuses) =>
            /\ Raised
            /\ result.cls = "ApiError"
            /\ result.status_code = resp.status_code
            /\ \A E \in ErrorCodes, M \in Messages :
                    resp.text = ErrorBody(E, M) =>
                        result.error = PStr(E) /\ result.message = PStr(M)

C2_Witness ==
    /\ call.op \in VerbOps
    /\ resp = Response(302, ErrorBody("x", "y"))
    /\ result = ApiError(302, PStr("x"), PStr("y"))

\* C3: a response with status 204 yields success with no value whatever its
\* body is, also when the body is not empty or not JSON.
C3_NoContentIsNone ==
    (GotResponse /\ resp.status_code = 204) => result = Return(None)

C3_Witness ==
    /\ call.op \in VerbOps
    /\ resp = Response(204, HtmlBody)
    /\ result = Return(None)

\* C4: for a status in 200..299 other than 204, an empty body yields success
\* with no value and a non-empty JSON body yields success with the decoded
\* body as the value.
C4_SuccessValue ==
    (GotResponse /\ IsSuccessStatus(resp.status_code) /\ resp.status_code # 204) =>
        /\ resp.text = "" => result = Return(None)
        /\ (resp.text # "" /\ JsonLoads(resp.text).ok) =>
                result = Return(JsonLoads(resp.text).value)
        /\ resp.text = ObjectBody => result = Return(PDict([a |-> PInt(1)]))

C4_Witness ==
    /\ call.op \in VerbOps
    /\ resp = Response(299, ObjectBody)
    /\ result = Return(PDict([a |-> PInt(1)]))

\* C5: for a non-2xx status and a body that does not parse as JSON, the
\* raised error has an empty error code and the raw response text as its
\* message, and its kind is the one the status selects.
C5_NonJsonErrorBody ==
    (GotResponse /\ ~IsSuccessStatus(resp.status_code) /\ ~JsonLoads(resp.text).ok) =>
        /\ Raised
        /\ result.cls = KindOfStatus(resp.status_code)
        /\ result.error = PStr("")
        /\ result.message = PStr(resp.text)

C5_Witness ==
    /\ call.op \in VerbOps
    /\ resp = Response(404, HtmlBody)
    /\ Raised
    /\ result.cls = "NotFoundError"
    /\ result.error = PStr("")
    /\ result.message = PStr(HtmlBody)

HasBearer(req, t) ==
    /\ "Authorization" \in DOMAIN req.headers
    /\ req.headers["Authorization"] = "Bearer " \o t

NoAuthorization(req) == "Authorization" \notin DOMAIN req.headers

\* C6 as claimed: the next request carries Authorization: Bearer t iff the
\* most recent credential operation was set_token(t) (or the constructor's
\* initial token t), and no Authorization header after clear_token.
C6_AsClaimed ==
    call.op \in VerbOps =>
        /\ \A t \in TokenStrings :
                HasBearer(wire[1], t) <=>
                    (credOp.op \in {"set_token", "init"} /\ credOp.token = PStr(t))
        /\ credOp.op = "clear_token" => NoAuthorization(wire[1])

\* C6, amended: the next request carries Authorization: Bearer t iff the most
\* recent credential operation was set_token(t), or the constructor with
\* initial token t, for a non-empty t; it carries no Authorization header when
\* that operation was clear_token, set_token(""), or the constructor with no
\* token or with "".
C6_BearerOfLastNonEmptyToken ==
    call.op \in VerbOps =>
        /\ \A t \in TokenStrings :
                HasBearer(wire[1], t) <=>
                    (credOp.op \in {"set_token", "init"} /\ credOp.token = PStr(t) /\ t # "")
        /\ (credOp.op = "clear_token" \/ credOp.token \in {None, PStr("")}) =>
                NoAuthorization(wire[1])

C6_Witness ==
    /\ call.op \in VerbOps
    /\ credOp = [op |-> "set_token", token |-> PStr(Token(2))]
    /\ HasBearer(wire[1], Token(2))

\* C9: a call of a verb method makes exactly one HTTP attempt: a failure
\* without a response raises CoreAuthError (not an ApiError) wrapping the
\* cause, a response of any status is classified, and neither is retried.
C9_OneAttemptPerCall ==
    call.op \in VerbOps =>
        /\ Len(wire) = 1
        /\ resp.t = "exc" =>
                /\ Raised
                /\ result.cls = "CoreAuthError"
                /\ "ApiError" \notin result.bases
                /\ result.cause = resp.name
        /\ resp.t = "response" => result = HandleResponse(resp)
        /\ resp.t \in {"exc", "response"}

C9_Witness ==
    /\ call.op \in VerbOps
    /\ Len(wire) = 1
    /\ resp = HTTPError("ReadTimeout")
    /\ result.cls = "CoreAuthError"
    /\ result.cause = "ReadTimeout"

\* C8: login(tenant_id, email, password) sends exactly one POST to
\* {base}/api/auth/login whose JSON body has exactly the fields tenant_id,
\* email and password with the argument values; on a 200 response it returns
\* the decoded object as it is, and it leaves the credential alone.
C8_LoginRequestAndResult ==
    call.op = "auth.login" =>
        /\ Len(wire) = 1
        /\ wire[1].method = "POST"
        /\ wire[1].url = base_url \o "/api/auth/login"
        /\ wire[1].json = PDict([tenant_id |-> call.args.tenant_id,
                                 email |-> call.args.email,
                                 password |-> call.args.password])
        /\ wire[1].params = None /\ wire[1].data = None
        /\ resp = Response(200, TokenBody) =>
                result = Return(PDict([access_token |-> PStr("A"),
                                       refresh_token |-> PStr("R"),
                                       token_type |-> PStr("Bearer"),
                                       expires_in |-> PInt(3600)]))
        /\ (GotResponse /\ resp.status_code = 200 /\ JsonLoads(resp.text).ok) =>
                result = Return(JsonLoads(resp.text).value)
        /\ token = credOp.token

C8_Witness ==
    /\ call.op = "auth.login"
    /\ call.args = [tenant_id |-> PStr("t1"), email |-> PStr("u@x.com"), password |-> PStr("pw")]
    /\ wire[1].url = "http://h/api/auth/login"
    /\ resp = Response(200, TokenBody)
    /\ result.kind = "return"
    /\ result.value.v["access_token"] = PStr("A")
    /\ token = None

\* The headers the next request would carry.
NextRequest == [headers |-> Headers]

\* C10 as claimed: after AuthService.logout returns, the transport holds no
\* token and the next request carries no Authorization header.
C10_AsClaimed ==
    (call.op = "auth.logout" /\ result.kind = "return") =>
        /\ token = None
        /\ NoAuthorization(NextRequest)

\* C10, amended: AuthService.logout sends its one POST to /api/auth/logout
\* and leaves the credential as it was: after it returns or raises, the
\* transport holds the token it held before, and the next request carries
\* Authorization: Bearer <token> exactly when that token is non-empty.  The
\* credential is cleared by clear_token only.
C10_LogoutLeavesCredential ==
    [][call'.op = "auth.logout" =>
            /\ token' = token
            /\ Len(wire') = 1
            /\ wire'[1].url = base_url \o "/api/auth/logout"
            /\ IF token.t = "str" /\ token.v # ""
               THEN HasBearer(NextRequest', token.v)
               ELSE NoAuthorization(NextRequest')]_vars

C10_Witness ==
    /\ call.op = "auth.logout"
    /\ result = Return(None)
    /\ token = PStr(Token(1))
    /\ HasBearer(wire[1], Token(1))
    /\ HasBearer(NextRequest, Token(1))

\* The optional named query arguments of each facade method.
OptionalQueryArgs(op) ==
    CASE op \in {"auth.create_login_flow_browser", "auth.create_login_flow_api"} ->
            {"organization_id", "request_id"}
      [] op \in {"auth.create_registration_flow_browser", "auth.create_registration_flow_api"} ->
            {"organization_id"}
      [] op = "audit.query" ->
            {"tenant_id", "event_types", "user_id", "start_date", "end_date", "limit", "offset"}
      [] op \in {"scim.list_users", "scim.list_scim_groups"} -> {"filter", "count", "start_index"}
      [] op = "scim.list_sessions" -> {"user_id"}
      [] op = "oauth2.oidc_logout" -> {"id_token_hint", "post_logout_redirect_uri", "state"}
      [] op = "fga.list_stores" -> {"include_inactive"}
      [] op \in {"fga.read_store_tuples", "webhooks.list_deliveries"} -> {}

QueryOps ==
    {"auth.create_login_flow_browser", "auth.create_login_flow_api",
     "auth.create_registration_flow_browser", "auth.create_registration_flow_api",
     "audit.query", "scim.list_users", "scim.list_scim_groups", "scim.list_sessions",
     "oauth2.oidc_logout", "fga.list_stores", "fga.read_store_tuples",
     "webhooks.list_deliveries"}

\* The query key an argument is sent under.
QueryKey(arg) == IF arg = "start_index" THEN "startIndex" ELSE arg

\* The keys the caller supplied: of the named arguments that are not None,
\* and of the extra keyword arguments.
SuppliedKeys ==
    {QueryKey(n) : n \in {n \in OptionalQueryArgs(call.op) : call.args[n] # None}}
        \cup (IF "extra" \in DOMAIN call.args THEN DOMAIN call.args.extra.v ELSE {})

\* C7: for every facade method with optional query arguments, an argument
\* that is unset never appears as a key of the outgoing query mapping (no key
\* is present that the caller did not supply, and none carries None or ""),
\* and when no optional argument is supplied the request has no query
\* mapping at all.
C7_UnsetQueryArgsAbsent ==
    call.op \in QueryOps =>
        LET p == wire[1].params
        IN  /\ Len(wire) = 1
            /\ SuppliedKeys = {} => p = None
            /\ p # None =>
                /\ p.t = "dict"
                /\ DOMAIN p.v # {}
                /\ DOMAIN p.v \subseteq SuppliedKeys
                /\ \A k \in DOMAIN p.v : p.v[k] \notin {None, PStr("")}

C7_Witness ==
    /\ call.op = "audit.query"
    /\ call.args.tenant_id = PStr("v")
    /\ call.args.limit = None
    /\ call.args.offset = PInt(0)
    /\ wire[1].params = PDict([tenant_id |-> PStr("v"), offset |-> PInt(0)])

IsSdkError(r) == r.kind = "raise" /\ "CoreAuthError" \in r.bases

\* C12: a response with a status in 200..299 other than 204 whose body is
\* not empty and is not valid JSON never yields a return, with a value or
\* without: the call raises the decoder's error, which no handler of the
\* transport catches.
C12_BadJsonOnSuccessRaises ==
    (GotResponse /\ IsSuccessStatus(resp.status_code) /\ resp.status_code # 204
        /\ resp.text # "" /\ ~JsonLoads(resp.text).ok) =>
            /\ result.kind # "return"
            /\ Raised
            /\ result.cls = "JSONDecodeError"

C12_Witness ==
    /\ call.op \in VerbOps
    /\ resp = Response(200, HtmlBody)
    /\ Raised
    /\ result.cls = "JSONDecodeError"

\* C13 as claimed: whatever a verb method raises is an instance of
\* CoreAuthError (the connectivity error or an ApiError kind), for a failed
\* attempt, for every non-2xx response and for a 2xx body that does not
\* decode.
C13_AsClaimed ==
    (call.op \in VerbOps /\ Raised) => IsSdkError(result)

\* What a verb method makes of the outcome net of its one attempt.
Classified(net) == IF net.t = "exc" THEN CoreAuthError(net.name) ELSE HandleResponse(net)

\* C14: a verb call that follows a failed verb call (whatever was raised:
\* CoreAuthError, an ApiError kind or the decoder's error) leaves base address
\* and token as they are, sends one request with the header of the current
\* token, and returns or raises what its own response alone determines.
C14_UsableAfterError ==
    /\ []((call.op \in VerbOps /\ Raised) => token = credOp.token)
    /\ [][(call.op \in VerbOps /\ Raised /\ call'.op \in VerbOps) =>
            /\ token' = token
            /\ base_url' = base_url
            /\ Len(wire') = 1
            /\ wire'[1].url = base_url \o call'.args.path.v
            /\ IF Truthy(token)
               THEN HasBearer(wire'[1], Format(token))
               ELSE NoAuthorization(wire'[1])
            /\ resp' \in NetOutcomes
            /\ result' = Classified(resp')]_vars

C14_Witness ==
    /\ call.op \in VerbOps
    /\ resp = HTTPError("ConnectError")
    /\ Raised
    /\ result.cls = "CoreAuthError"
    /\ credOp.op = "set_token"
    /\ token = PStr(Token(2))
    /\ HasBearer(wire[1], Token(2))

ContentType(req) == req.headers["Content-Type"]

\* C18: a request of post_form carries Content-Type
\* application/x-www-form-urlencoded and its body as form data; a request of
\* post, put, patch or delete that has a JSON body carries Content-Type
\* application/json; no request has both a JSON and a form body, and none
\* has another content type.
C18_ContentTypeMatchesBody ==
    call.op \in VerbOps =>
        LET req == wire[1]
        IN  /\ Len(wire) = 1
            /\ "Content-Type" \in DOMAIN req.headers
            /\ ContentType(req) \in {"application/json", "application/x-www-form-urlencoded"}
            /\ call.op = "post_form" =>
                    /\ ContentType(req) = "application/x-www-form-urlencoded"
                    /\ req.data = call.args.data
                    /\ req.json = None
            /\ call.op \in {"post", "put", "patch", "delete"} =>
                    /\ req.json = call.args.json
                    /\ req.data = None
                    /\ ContentType(req) = "application/json"
            /\ req.json # None => ContentType(req) = "application/json"
            /\ req.data # None => ContentType(req) = "application/x-www-form-urlencoded"
            /\ ~(req.json # None /\ req.data # None)

C18_Witness ==
    /\ call.op = "post_form"
    /\ wire[1].data = PDict([grant_type |-> PStr("client_credentials")])
    /\ ContentType(wire[1]) = "application/x-www-form-urlencoded"

\* The string s ends with '/'.
EndsWithSlash(s) == \E b \in BaseInputs : s = Join(b) /\ b # <<>> /\ b[Len(b)] = "/"

\* The pieces of b before its trailing run of '/'.
WithoutTrailingSlashes(b) ==
    LET k == CHOOSE k \in 0..Len(b) :
                /\ \A i \in (k + 1)..Len(b) : b[i] = "/"
                /\ k = 0 \/ b[k] # "/"
    IN  SubSeq(b, 1, k)

\* C17: the stored base address never ends with '/'; the URL of every request
\* is the stored base address followed by the method's path; and the first
\* request of a client has the same URL whether the constructor was given the
\* base address with trailing '/' or without.
C17_BaseAddressNormalized ==
    /\ [](~EndsWithSlash(base_url))
    /\ [](call.op \in VerbOps => wire[1].url = base_url \o call.args.path.v)
    /\ [](call.op = "init" =>
            \E b \in BaseInputs :
                /\ call.args.base_url = PStr(Join(b))
                /\ base_url = Join(WithoutTrailingSlashes(b)))
    /\ [][(call.op = "init" /\ call'.op \in VerbOps) =>
            \E b \in BaseInputs :
                /\ call.args.base_url = PStr(Join(b))
                /\ wire'[1].url = Join(WithoutTrailingSlashes(b)) \o call'.args.path.v]_vars

C17_Witness ==
    /\ call.op = "init"
    /\ call.args.base_url = PStr("http://h//")
    /\ base_url = "http://h"

\* The table of the specification: kind, status, default code, default message.
ErrorTable ==
    {<<"ValidationError", 400, "validation_error", "Invalid request">>,
     <<"AuthenticationError", 401, "unauthorized", "Authentication required">>,
     <<"ForbiddenError", 403, "forbidden", "Insufficient permissions">>,
     <<"NotFoundError", 404, "not_found", "Resource not found">>,
     <<"ConflictError", 409, "conflict", "Resource already exists">>,
     <<"RateLimitError", 429, "rate_limited", "Rate limit exceeded">>}

\* C19: each of the six specific error kinds, constructed without explicit
\* values, has the status, the default error code and the default message of
\* the table; an argument that is given replaces its default only.
C19_ConstructorDefaults ==
    (call.op = "new" /\ call.args.cls \in SpecificClasses) =>
        \E row \in ErrorTable :
            /\ row[1] = call.args.cls
            /\ result.cls = row[1]
            /\ result.status_code = row[2]
            /\ result.error = (IF call.args.error = Omitted THEN PStr(row[3]) ELSE call.args.error)
            /\ result.message =
                    (IF call.args.message = Omitted THEN PStr(row[4]) ELSE call.args.message)

C19_Witness ==
    /\ call.op = "new"
    /\ call.args = [cls |-> "ConflictError", error |-> Omitted, message |-> Omitted]
    /\ result.status_code = 409
    /\ result.error = PStr("conflict")
    /\ result.message = PStr("Resource already exists")

\* C15: leaving a with-block closes the pool on both exit paths: the block is
\* left only through __exit__, which forwards one close() to the pool whether
\* the body ended normally or with an exception, and after it the statement
\* raises the body's exception again (or completes, when there was none).
C15_WithBlockCloses ==
    /\ [](scope.at = "exited" => client.closes >= 1)
    /\ [][(scope.at = "inside" /\ scope'.at # "inside") =>
            /\ call'.op = "__exit__"
            /\ scope'.at = "exited"
            /\ client'.closes = client.closes + 1
            /\ scope.exc = None => result' = Return(None)
            /\ scope.exc # None => result' = scope.exc /\ result'.kind = "raise"]_vars

C15_Witness ==
    /\ call.op = "__exit__"
    /\ scope.at = "exited"
    /\ scope.exc # None
    /\ scope.exc.cls = "NotFoundError"
    /\ result = scope.exc
    /\ client.closes = 1

\* C16 as claimed: the pool receives close() exactly once: at least once when
\* a with-block has been left, and never more than once.
C16_AsClaimed ==
    /\ scope.at = "exited" => client.closes >= 1
    /\ client.closes <= 1

\* C16: every close() call and every exit of a with-block forwards exactly
\* one close() to the pool, no other operation forwards any, and the client
\* keeps no flag that would stop a second one; so the pool has received a
\* close once a with-block has been left, and one per call beyond that.
C16_OneClosePerCall ==
    /\ [](scope.at = "exited" => client.closes >= 1)
    /\ [][/\ call'.op \in {"close", "__exit__"} => client'.closes = client.closes + 1
          /\ call'.op \notin {"close", "__exit__"} => client'.closes = client.closes]_vars

C16_Witness ==
    /\ call.op = "close"
    /\ scope.at = "exited"
    /\ client.closes = 2

\* The callers whose request was built while the credential was not mutated.
Undisturbed(th) == Cardinality(threads[th].held) = 1

\* C20: when no credential operation falls into the construction of a
\* request, the request carries the header of the token the credential then
\* held and its call returns or raises what its own response determines; a
\* step of one caller changes neither the client's fields nor anything of
\* another caller's request.
C20_ConcurrentRequestsIndependent ==
    /\ [](\A th \in Threads :
            /\ (threads[th].pc = "wait" /\ Undisturbed(th)) =>
                    LET h == CHOOSE h \in threads[th].held : TRUE
                    IN  /\ threads[th].request.url = base_url \o "/api/x"
                        /\ IF Truthy(h)
                           THEN HasBearer(threads[th].request, Format(h))
                           ELSE NoAuthorization(threads[th].request)
            /\ threads[th].pc = "done" =>
                    /\ threads[th].resp \in ThreadOutcomes
                    /\ threads[th].result = Classified(threads[th].resp))
    /\ [][\A th \in Threads :
            threads'[th].pc # threads[th].pc =>
                /\ token' = token
                /\ base_url' = base_url
                /\ client' = client
                /\ \A other \in Threads \ {th} : threads'[other] = threads[other]]_vars

C20_Witness ==
    /\ threads[1].pc = "done"
    /\ HasBearer(threads[1].request, Token(1))
    /\ threads[1].result = Return(PDict([a |-> PInt(1)]))
    /\ threads[2].pc = "wait"
    /\ Undisturbed(2)
    /\ token = PStr(Token(1))
    /\ HasBearer(threads[2].request, Token(1))

\* C11 as claimed: every public method of every facade, OAuth2Service's
\* authorize among them, makes exactly one transport call.
C11_AsClaimed ==
    call.op # "init" => Len(wire) = 1

\* C11: every public method of the twelve facades other than
\* OAuth2Service.authorize makes exactly one transport call, and its outcome
\* is that call's; authorize makes none: it returns the authorization URL
\* built from the stored base address and its arguments.
C11_OneTransportCallPerMethod ==
    /\ (call.op \notin {"init", "oauth2.authorize"}) =>
            /\ Len(wire) = 1
            /\ wire[1].method \in {"GET", "POST", "PUT", "PATCH", "DELETE"}
            /\ resp \in FacadeOutcomes
            /\ Raised => result = Classified(resp)
    /\ call.op = "oauth2.authorize" =>
            /\ Len(wire) = 0
            /\ resp = None
            /\ result.kind = "return"
            /\ result.value.t = "str"
            /\ (call.args.response_type = Omitted /\ call.args.scope = Omitted
                    /\ call.args.params = PList(<<>>)) =>
                    result.value.v =
                        base_url \o "/authorize?client_id=app1"
                                 \o "&redirect_uri=https%3A%2F%2Fapp%2Fcb"
                                 \o "&response_type=code&scope=openid"

C11_Witness ==
    /\ call.op = "oauth2.authorize"
    /\ call.args.scope = PStr("openid profile")
    /\ call.args.response_type = Omitted
    /\ call.args.params = PList(<<<<"state", PStr("s1")>>>>)
    /\ wire = <<>>
    /\ result.value.v =
            "http://h/authorize?client_id=app1&redirect_uri=https%3A%2F%2Fapp%2Fcb"
                \o "&response_type=code&scope=openid+profile&state=s1"

\* C21 as claimed: a request built while set_token or clear_token runs
\* carries no Authorization header, or Bearer t for a token t that the
\* credential held while the request was built; never a header built from an
\* absent credential.
C21_AsClaimed ==
    \A th \in Threads :
        threads[th].pc = "wait" =>
            \/ NoAuthorization(threads[th].request)
            \/ \E t \in threads[th].held \ {None} : HasBearer(threads[th].request, t.v)

CredentialOps == {"set_token", "clear_token"}

\* The most recent operation was a facade method that calls the transport.
FacadeRequested == call.op \notin ({"init", "oauth2.authorize"} \cup CredentialOps)

\* C22: the token is written by set_token and clear_token only: it is always
\* the one the most recent credential operation (or the constructor) named,
\* no facade method changes it, whether it returns or raises and whatever the
\* server answers (a token pair, a 401), and no method sends a request of its
\* own to the refresh endpoint.
C22_OnlyCredentialOpsWriteToken ==
    /\ [](token = credOp.token)
    /\ [](FacadeRequested =>
            /\ Len(wire) = 1
            /\ call.op # "auth.refresh_token" => wire[1].url # base_url \o "/api/auth/refresh")
    /\ [][call'.op \notin CredentialOps => token' = token]_vars

C22_Witness ==
    /\ call.op = "auth.login"
    /\ resp = Response(200, TokenBody)
    /\ result.kind = "return"
    /\ result.value.v["access_token"] = PStr("A")
    /\ credOp.op = "set_token"
    /\ token = PStr(Token(1))

\* C25 as claimed: after set_token(t) a request through any facade carries
\* Bearer t, and after clear_token it carries no Authorization header.
C25_AsClaimed ==
    FacadeRequested =>
        /\ credOp.op = "set_token" => HasBearer(wire[1], credOp.token.v)
        /\ credOp.op = "clear_token" => NoAuthorization(wire[1])

\* C25: the facades use the one transport of the client: a request through
\* any of them carries Bearer t when the most recent credential operation was
\* set_token(t) with a non-empty t, and no Authorization header after
\* clear_token or set_token(""); a facade call changes no field of the
\* client.
C25_FacadesShareTransport ==
    /\ [](FacadeRequested =>
            /\ (credOp.op = "set_token" /\ credOp.token # PStr("")) =>
                    HasBearer(wire[1], credOp.token.v)
            /\ (credOp.op = "clear_token" \/ credOp.token = PStr("")) =>
                    NoAuthorization(wire[1]))
    /\ [][call'.op \notin ({"init"} \cup CredentialOps) =>
            /\ token' = token
            /\ base_url' = base_url
            /\ client' = client]_vars

C25_Witness ==
    /\ call.op = "webhooks.list_event_types"
    /\ credOp = [op |-> "set_token", token |-> PStr(Token(2))]
    /\ HasBearer(wire[1], Token(2))
    /\ wire[1].url = "http://h/api/webhooks/event-types"

\* The facade methods that drop the value the transport returns.
DropsValue == {"auth.logout", "connections.delete"}

\* C27: what a call returns or raises is determined by the status code and
\* the body of its response alone (or by the failure of its attempt): it is
\* the same function of the response for all six verbs, every path, every
\* credential and whatever was called before.
C27_ClassificationByResponseOnly ==
    /\ [](FacadeRequested =>
            /\ resp \in FacadeOutcomes
            /\ (call.op \notin DropsValue \/ Raised) => result = Classified(resp)
            /\ resp = Response(204, "") => result = Return(None)
            /\ resp = Response(401, ErrorBody("x", "y")) =>
                    result = AuthenticationError(PStr("x"), PStr("y")))
    /\ [][(FacadeRequested /\ call'.op \notin ({"init", "oauth2.authorize"} \cup CredentialOps)
            /\ call.op \notin DropsValue /\ call'.op \notin DropsValue /\ resp' = resp) =>
                result' = result]_vars

C27_Witness ==
    /\ call.op = "scim.delete_user"
    /\ wire[1].method = "DELETE"
    /\ wire[1].url = "http://h/scim/v2/Users/id1"
    /\ token = None
    /\ resp = Response(401, ErrorBody("x", "y"))
    /\ result = AuthenticationError(PStr("x"), PStr("y"))

\* The bodies of the model that decode to a JSON object.
IsJsonObject(text) == JsonLoads(text).ok /\ JsonLoads(text).value.t = "dict"

\* C23: for a non-2xx response whose body is a JSON object, the raised error
\* carries the error and message of the body, and the empty string for a
\* field the body lacks; it never carries a default of its class in place
\* of a field, for the six mapped statuses as for the others.
C23_JsonObjectFieldsPassThrough ==
    (GotResponse /\ ~IsSuccessStatus(resp.status_code) /\ IsJsonObject(resp.text)) =>
        LET body == JsonLoads(resp.text).value.v
        IN  /\ Raised
            /\ result.error = IF "error" \in DOMAIN body THEN body["error"] ELSE PStr("")
            /\ result.message = IF "message" \in DOMAIN body THEN body["message"] ELSE PStr("")
            /\ resp.text = OnlyErrorBody =>
                    result.error = PStr("x") /\ result.message = PStr("")
            /\ resp.text \in {EmptyObjectBody, ObjectBody} =>
                    result.error = PStr("") /\ result.message = PStr("")
            /\ resp.status_code \in MappedStatuses =>
                    /\ "error" \notin DOMAIN body =>
                            result.error # DefaultError(KindOfStatus(resp.status_code))
                    /\ "message" \notin DOMAIN body =>
                            result.message # DefaultMessage(KindOfStatus(resp.status_code))

C23_Witness ==
    /\ call.op \in VerbOps
    /\ resp = Response(409, OnlyErrorBody)
    /\ result = ConflictError(PStr("x"), PStr(""))

\* C24: every error raised for a response carries the status code of that
\* response: the six classes that fix their own status are raised for that
\* status only, and ApiError is given the status of the response.
C24_ErrorCarriesResponseStatus ==
    (GotResponse /\ ~IsSuccessStatus(resp.status_code)) =>
        /\ Raised
        /\ "ApiError" \in result.bases
        /\ result.status_code = resp.status_code

C24_Witness ==
    /\ call.op \in VerbOps
    /\ resp.t = "response"
    /\ resp.status_code = 409
    /\ result.cls = "ConflictError"
    /\ result.status_code = 409

\* C28: the empty string as a token is no credential: a request made after
\* set_token(""), or after construction with "", has the headers of a
\* request made after clear_token, the content type and nothing else.
C28_EmptyTokenIsNoCredential ==
    (call.op \in VerbOps /\ (credOp.token = PStr("") \/ credOp.op = "clear_token")) =>
        /\ NoAuthorization(wire[1])
        /\ wire[1].headers =
                [k \in {"Content-Type"} |->
                    IF call.op = "post_form" THEN "application/x-www-form-urlencoded"
                    ELSE "application/json"]

C28_Witness ==
    /\ call.op = "post_form"
    /\ credOp = [op |-> "set_token", token |-> PStr("")]
    /\ token = PStr("")
    /\ DOMAIN wire[1].headers = {"Content-Type"}

\* The optional query arguments that are numbers or booleans.
NumericQueryArgs == {"count", "start_index", "limit", "offset", "include_inactive"}

\* C29: an optional numeric or boolean query argument is sent, with its
\* value, whenever it is not None, 0 and false included; an optional string
\* argument is sent when it is a non-empty string and is absent from the
\* query when it is None or empty.
C29_TwoPresenceTests ==
    call.op \in QueryOps =>
        \A n \in OptionalQueryArgs(call.op) :
            LET v == call.args[n]
                k == QueryKey(n)
                p == wire[1].params
                extras == IF "extra" \in DOMAIN call.args THEN DOMAIN call.args.extra.v ELSE {}
                sent == p # None /\ k \in DOMAIN p.v /\ p.v[k] = v
                absent == p = None \/ k \notin DOMAIN p.v
                given == IF n \in NumericQueryArgs THEN v # None ELSE v \notin {None, PStr("")}
            IN  /\ given => sent
                /\ (~given /\ k \notin extras) => absent

C29_Witness ==
    /\ call.op = "scim.list_users"
    /\ call.args.filter = PStr("")
    /\ call.args.count = PInt(0)
    /\ call.args.start_index = None
    /\ wire[1].params = PDict([count |-> PInt(0)])

\* C26 as claimed: in a method that merges a bag of extra keyword arguments,
\* every field derived from a named argument goes out with the value of that
\* argument, whatever the bag holds: flow is flow_id in the body of
\* submit_login_flow and submit_registration_flow, the named fields of
\* tenants.create are the arguments, and filter, count and startIndex of
\* list_users are the explicit arguments when these are set.
C26_AsClaimed ==
    /\ call.op \in {"auth.submit_login_flow", "auth.submit_registration_flow"} =>
            wire[1].json.v["flow"] = call.args.flow_id
    /\ call.op = "tenants.create" =>
            /\ \A k \in {"name", "slug", "admin_email", "admin_password"} :
                    wire[1].json.v[k] = call.args[k]
            /\ Truthy(call.args.admin_full_name) =>
                    wire[1].json.v["admin_full_name"] = call.args.admin_full_name
    /\ call.op = "scim.list_users" =>
            /\ Truthy(call.args.filter) => wire[1].params.v["filter"] = call.args.filter
            /\ call.args.count # None => wire[1].params.v["count"] = call.args.count
            /\ call.args.start_index # None =>
                    wire[1].params.v["startIndex"] = call.args.start_index

====
